---- MODULE Spec2Model ----
(***************************************************************************)
(* Layered configuration resolver of opencode_config.rs: three JSON       *)
(* documents (user, project, custom) and per-artifact Markdown files with  *)
(* front-matter, and the create / update / delete operations on agents and *)
(* commands.                                                               *)
(*                                                                         *)
(* Text is a sequence of one-character strings.  A JSON value is a tagged  *)
(* record; an object carries a function from its keys to values.  A        *)
(* Markdown file is kept as the front-matter mapping and the body text     *)
(* that follow the "---" header written by write_md_file.                  *)
(*                                                                         *)
(* Agents and commands live in disjoint directories (agents/ and           *)
(* commands/) and disjoint document sections ("agent" and "command"); a    *)
(* behaviour follows the Markdown directories of one kind, chosen          *)
(* initially, and carries the section of the other kind in the documents   *)
(* as foreign content.                                                     *)
(***************************************************************************)
EXTENDS Integers, Sequences, FiniteSets, TLC

VARIABLES
    kind,       \* "agent" or "command": the artifact directories followed
    customSet,  \* OPENCODE_CONFIG is set in the environment
    md,         \* md[scope][dir]: the file <scope root>/<dir>/<name>.md
    json,       \* json[path]: the parsed content of a JSON document
    backup,     \* backup[path]: content of <path>.openchamber.backup
    prompts,    \* files written through a {file:...} reference
    skill,      \* skill[name][root, dir]: the directory <root>/<dir>/<name>
    calls,      \* the number of calls made
    last,       \* the last call: operation, arguments, result, state before
    proc        \* proc[p]: a call taken statement by statement: its position,
                \* its request, what it has read and the writes it decided on

vars == <<kind, customSet, md, json, backup, prompts, skill, calls, last, proc>>

-----------------------------------------------------------------------------
(* JSON values (serde_json::Value) *)

Null == [t |-> "null"]
Str(s) == [t |-> "str", s |-> s]
Bool(b) == [t |-> "bool", b |-> b]
Obj(m) == [t |-> "obj", m |-> m]
Arr(a) == [t |-> "arr", a |-> a]

NoFile == [t |-> "nofile"]

\* Option::None, for a name, for a Markdown path and for a value
None == "none"
NoPath == << >>
NoValue == [t |-> "none"]

EmptyMap == [x \in {} |-> Null]
Put(m, k, v) == [x \in (DOMAIN m) \cup {k} |-> IF x = k THEN v ELSE m[x]]
Del(m, k) == [x \in (DOMAIN m) \ {k} |-> m[x]]

is_object(v) == v.t = "obj"
is_null(v) == v.t = "null"

\* Value::get(key): Some only on an object that has the key
HasKey(v, k) == is_object(v) /\ k \in DOMAIN v.m

\* value.as_str().unwrap_or("")
as_str_or_empty(v) == IF v.t = "str" THEN v.s ELSE << >>

-----------------------------------------------------------------------------
(* Text helpers *)

IsWs(c) == c \in {" ", "\n"}

RECURSIVE TrimStart(_)
TrimStart(s) ==
    IF s = << >> THEN << >>
    ELSE IF IsWs(Head(s)) THEN TrimStart(Tail(s)) ELSE s

RECURSIVE TrimEnd(_)
TrimEnd(s) ==
    IF s = << >> THEN << >>
    ELSE IF IsWs(s[Len(s)]) THEN TrimEnd(SubSeq(s, 1, Len(s) - 1)) ELSE s

\* str::trim
Trim(s) == TrimEnd(TrimStart(s))

\* case folding of the letters of the "file" tag
Lower(c) ==
    CASE c = "F" -> "f" [] c = "I" -> "i" [] c = "L" -> "l" [] c = "E" -> "e"
      [] OTHER -> c

LowerAll(s) == [i \in 1..Len(s) |-> Lower(s[i])]

FileTag == <<"{", "f", "i", "l", "e", ":">>

\* PROMPT_FILE_PATTERN (?i)^\{file:(.+)\}$ : the capture, NoPath on no match
PromptFileCapture(s) ==
    IF /\ Len(s) >= Len(FileTag) + 2
       /\ LowerAll(SubSeq(s, 1, Len(FileTag))) = FileTag
       /\ s[Len(s)] = "}"
       /\ \A i \in (Len(FileTag) + 1)..(Len(s) - 1) : s[i] # "\n"
    THEN SubSeq(s, Len(FileTag) + 1, Len(s) - 1)
    ELSE NoPath

\* is_prompt_file_reference
is_prompt_file_reference(value) == PromptFileCapture(Trim(value)) # NoPath

\* PathBuf::join: an absolute component replaces the base
JoinConfigDir(rel) ==
    IF rel # << >> /\ Head(rel) = "/" THEN [abs |-> TRUE, p |-> rel]
    ELSE [abs |-> FALSE, p |-> rel]

NoFilePath == [abs |-> FALSE, p |-> <<"\n">>]

\* a resolver that joins a blank target to the configuration directory
resolve_prompt_file_path_BlankJoined(reference) ==
    LET capture == PromptFileCapture(Trim(reference))
    IN  IF capture = NoPath THEN NoFilePath ELSE JoinConfigDir(Trim(capture))

\* resolve_prompt_file_path: NoFilePath stands for None
resolve_prompt_file_path(reference) ==
    LET capture == PromptFileCapture(Trim(reference))
        target == Trim(capture)
    IN  IF capture = NoPath \/ target = << >> THEN NoFilePath
        ELSE IF Len(target) >= 2 /\ SubSeq(target, 1, 2) = <<".", "/">>
        THEN JoinConfigDir(SubSeq(target, 3, Len(target)))
        ELSE IF Head(target) = "/" THEN [abs |-> TRUE, p |-> target]
        ELSE JoinConfigDir(target)

\* write_prompt_file
write_prompt_file(fs, file_path, content) ==
    [fs EXCEPT !.prompts = Put(@, file_path, content)]

-----------------------------------------------------------------------------
(* Paths.  A JSON document path is named after its layer; a Markdown path  *)
(* is the pair <<scope, dir>> for the artifact name under operation.       *)

UserPath == "user"
ProjectPath == "project"
CustomPath == "custom"
Layers == {UserPath, ProjectPath, CustomPath}

Scopes == {"project", "user"}
Dirs == {"plural", "legacy"}

Kinds == {"agent", "command"}
SectionKey(k) == k
ContentField(k) == IF k = "agent" THEN "prompt" ELSE "template"
OtherKind(k) == IF k = "agent" THEN "command" ELSE "agent"

\* The state of the file system as one record
FS == [md |-> md, json |-> json, backup |-> backup, prompts |-> prompts,
       skill |-> skill, custom |-> customSet]

exists_md(fs, p) == fs.md[p[1]][p[2]] # NoFile

\* a project path that prefers the legacy directory whenever it has the file
get_project_agent_path_LegacyFirst(fs) ==
    IF exists_md(fs, <<"project", "legacy">>)
    THEN <<"project", "legacy">>
    ELSE <<"project", "plural">>

\* get_project_agent_path / get_project_command_path
get_project_agent_path(fs) ==
    IF exists_md(fs, <<"project", "legacy">>) /\ ~exists_md(fs, <<"project", "plural">>)
    THEN <<"project", "legacy">>
    ELSE <<"project", "plural">>

\* a user path that knows the plural directory only
get_user_agent_path_PluralOnly(fs) == <<"user", "plural">>

\* get_user_agent_path / get_user_command_path
get_user_agent_path(fs) ==
    IF exists_md(fs, <<"user", "legacy">>) /\ ~exists_md(fs, <<"user", "plural">>)
    THEN <<"user", "legacy">>
    ELSE <<"user", "plural">>

\* get_agent_scope / get_command_scope: [scope, path], None when absent
get_agent_scope(fs, wd) ==
    IF wd # None /\ exists_md(fs, get_project_agent_path(fs))
    THEN [scope |-> "project", path |-> get_project_agent_path(fs)]
    ELSE IF exists_md(fs, get_user_agent_path(fs))
    THEN [scope |-> "user", path |-> get_user_agent_path(fs)]
    ELSE [scope |-> None, path |-> NoPath]

\* a write path that follows the requested scope before an existing file
get_agent_write_path_RequestedFirst(fs, wd, requested_scope) ==
    LET existing == get_agent_scope(fs, wd)
        scope == IF requested_scope = None THEN "user" ELSE requested_scope
    IN  IF scope = "project" /\ wd # None
        THEN [scope |-> "project", path |-> get_project_agent_path(fs)]
        ELSE IF scope = "user"
        THEN [scope |-> "user", path |-> get_user_agent_path(fs)]
        ELSE existing

\* get_agent_write_path / get_command_write_path
get_agent_write_path(fs, wd, requested_scope) ==
    LET existing == get_agent_scope(fs, wd)
        scope == IF requested_scope = None THEN "user" ELSE requested_scope
    IN  IF existing.path # NoPath THEN existing
        ELSE IF scope = "project" /\ wd # None
        THEN [scope |-> "project", path |-> get_project_agent_path(fs)]
        ELSE [scope |-> "user", path |-> get_user_agent_path(fs)]

-----------------------------------------------------------------------------
(* Skill locations.  A skill is a directory <name> holding SKILL.md and    *)
(* supporting files, under skills/ (plural) or skill/ (legacy) of the user *)
(* configuration directory and of <wd>/.opencode, or under                 *)
(* <wd>/.claude/skills.                                                    *)

(* The directory of a skill holds SKILL.md (md), supporting files by their  *)
(* path relative to the directory (files) and the subdirectories on those  *)
(* paths (dirs); a relative path is the sequence of its components.        *)

NoDir == [t |-> "nodir"]
SkillDir(skill_md, files, dirs) ==
    [t |-> "dir", md |-> skill_md, files |-> files, dirs |-> dirs]

\* skill names that have directories
Foo == <<"f", "o", "o">>
Bar == <<"b", "-", "1">>
SkillNames == {Foo, Bar}

SkillLocs ==
    {<<"project", "plural">>, <<"project", "legacy">>, <<"claude", "plural">>,
     <<"user", "plural">>, <<"user", "legacy">>}

\* Path::exists on a skill directory and on its SKILL.md
exists_skill_dir(fs, skill_name, loc) == fs.skill[skill_name][loc] # NoDir
exists_skill_md(fs, skill_name, loc) ==
    fs.skill[skill_name][loc] # NoDir /\ fs.skill[skill_name][loc].md # NoFile

SkillMdPath(loc) == <<loc[1], loc[2], "SKILL.md">>

\* get_user_skill_dir
get_user_skill_dir(fs, skill_name) ==
    IF exists_skill_dir(fs, skill_name, <<"user", "legacy">>) /\ ~exists_skill_dir(fs, skill_name, <<"user", "plural">>)
    THEN <<"user", "legacy">>
    ELSE <<"user", "plural">>

\* get_user_skill_path
get_user_skill_path(fs, skill_name) ==
    IF exists_skill_md(fs, skill_name, <<"user", "legacy">>) /\ ~exists_skill_md(fs, skill_name, <<"user", "plural">>)
    THEN SkillMdPath(<<"user", "legacy">>)
    ELSE SkillMdPath(<<"user", "plural">>)

\* get_project_skill_dir
get_project_skill_dir(fs, skill_name) ==
    IF /\ exists_skill_dir(fs, skill_name, <<"project", "legacy">>)
       /\ ~exists_skill_dir(fs, skill_name, <<"project", "plural">>)
    THEN <<"project", "legacy">>
    ELSE <<"project", "plural">>

\* get_project_skill_path
get_project_skill_path(fs, skill_name) ==
    IF /\ exists_skill_md(fs, skill_name, <<"project", "legacy">>)
       /\ ~exists_skill_md(fs, skill_name, <<"project", "plural">>)
    THEN SkillMdPath(<<"project", "legacy">>)
    ELSE SkillMdPath(<<"project", "plural">>)

-----------------------------------------------------------------------------
(* Document store and layer loader *)

\* get_config_paths
get_config_paths(fs, wd) ==
    [user |-> UserPath,
     project |-> IF wd # None THEN ProjectPath ELSE None,
     custom |-> IF fs.custom THEN CustomPath ELSE None]

\* read_config_file: a missing file reads as the empty object
read_config_file(fs, path) ==
    IF fs.json[path] = NoFile THEN Obj(EmptyMap) ELSE fs.json[path]

\* a document that is not empty and that neither parser accepts
Unparsable == [t |-> "unparsable"]

\* read_config_file returns the parse error
read_config_file_err(fs, path) == fs.json[path] = Unparsable

\* read_config_layers returns the error of the first document that fails:
\* the user document, then the project and the custom one when configured
read_config_layers_err(fs, wd) ==
    LET paths == get_config_paths(fs, wd)
    IN  \/ read_config_file_err(fs, paths.user)
        \/ paths.project # None /\ read_config_file_err(fs, paths.project)
        \/ paths.custom # None /\ read_config_file_err(fs, paths.custom)

\* read_config_layers (the merged view is not used by these operations)
read_config_layers(fs, wd) ==
    LET paths == get_config_paths(fs, wd)
    IN  [user |-> read_config_file(fs, paths.user),
         project |-> IF paths.project # None
                     THEN read_config_file(fs, paths.project) ELSE Obj(EmptyMap),
         custom |-> IF paths.custom # None
                    THEN read_config_file(fs, paths.custom) ELSE Obj(EmptyMap),
         paths |-> paths]

\* a merge that keeps an object of the base under an overlay value that is
\* not an object
RECURSIVE merge_values_KeepBaseObject(_, _)
merge_values_KeepBaseObject(base, overlay) ==
    IF is_object(base) /\ is_object(overlay)
    THEN Obj([key \in DOMAIN base.m \cup DOMAIN overlay.m |->
                 IF key \in DOMAIN overlay.m
                 THEN merge_values_KeepBaseObject(
                          IF key \in DOMAIN base.m THEN base.m[key] ELSE Null,
                          overlay.m[key])
                 ELSE base.m[key]])
    ELSE IF is_object(base) THEN base
    ELSE overlay

\* merge_values: objects merge key by key, anything else is replaced by the
\* overlay
RECURSIVE merge_values(_, _)
merge_values(base, overlay) ==
    IF is_object(base) /\ is_object(overlay)
    THEN Obj([key \in DOMAIN base.m \cup DOMAIN overlay.m |->
                 IF key \in DOMAIN overlay.m
                 THEN merge_values(
                          IF key \in DOMAIN base.m THEN base.m[key] ELSE Null,
                          overlay.m[key])
                 ELSE base.m[key]])
    ELSE overlay

\* read_config: the merged view that read_config_layers builds from its
\* three documents
read_config(fs, wd) ==
    LET layers == read_config_layers(fs, wd)
    IN  merge_values(merge_values(layers.user, layers.project), layers.custom)

AbsentSource == [exists |-> FALSE, path |-> None, section |-> NoValue]

\* layer.get(section_key).and_then(as_object).get(entry_name) is Some
LayerHasEntry(doc, section_key, entry_name) ==
    /\ HasKey(doc, section_key)
    /\ HasKey(doc.m[section_key], entry_name)

\* a lookup that asks the user layer before the project layer
get_json_entry_source_UserFirst(layers, section_key, entry_name) ==
    IF layers.paths.custom # None /\ LayerHasEntry(layers.custom, section_key, entry_name)
    THEN [exists |-> TRUE, path |-> layers.paths.custom,
          section |-> layers.custom.m[section_key].m[entry_name]]
    ELSE IF LayerHasEntry(layers.user, section_key, entry_name)
    THEN [exists |-> TRUE, path |-> layers.paths.user,
          section |-> layers.user.m[section_key].m[entry_name]]
    ELSE IF layers.paths.project # None
            /\ LayerHasEntry(layers.project, section_key, entry_name)
    THEN [exists |-> TRUE, path |-> layers.paths.project,
          section |-> layers.project.m[section_key].m[entry_name]]
    ELSE AbsentSource

\* get_json_entry_source
get_json_entry_source(layers, section_key, entry_name) ==
    IF layers.paths.custom # None /\ LayerHasEntry(layers.custom, section_key, entry_name)
    THEN [exists |-> TRUE, path |-> layers.paths.custom,
          section |-> layers.custom.m[section_key].m[entry_name]]
    ELSE IF layers.paths.project # None
            /\ LayerHasEntry(layers.project, section_key, entry_name)
    THEN [exists |-> TRUE, path |-> layers.paths.project,
          section |-> layers.project.m[section_key].m[entry_name]]
    ELSE IF LayerHasEntry(layers.user, section_key, entry_name)
    THEN [exists |-> TRUE, path |-> layers.paths.user,
          section |-> layers.user.m[section_key].m[entry_name]]
    ELSE AbsentSource

\* a write target that follows the preferred scope before the custom layer
get_json_write_target_ScopeFirst(layers, preferred_scope) ==
    IF preferred_scope = "project" /\ layers.paths.project # None
    THEN layers.paths.project
    ELSE IF layers.paths.custom # None THEN layers.paths.custom
    ELSE layers.paths.user

\* a write target that goes to the user layer when the user scope is preferred
get_json_write_target_PreferredUser(layers, preferred_scope) ==
    IF layers.paths.custom # None THEN layers.paths.custom
    ELSE IF preferred_scope = "user" THEN layers.paths.user
    ELSE IF layers.paths.project # None THEN layers.paths.project
    ELSE layers.paths.user

\* get_json_write_target
get_json_write_target(layers, preferred_scope) ==
    IF layers.paths.custom # None THEN layers.paths.custom
    ELSE IF preferred_scope = "project" /\ layers.paths.project # None
    THEN layers.paths.project
    ELSE IF layers.paths.project # None THEN layers.paths.project
    ELSE layers.paths.user

\* get_config_for_path: the name of the layer whose document is borrowed
get_config_for_path(layers, target_path) ==
    IF layers.paths.custom # None /\ layers.paths.custom = target_path THEN "custom"
    ELSE IF layers.paths.project # None /\ layers.paths.project = target_path
    THEN "project"
    ELSE "user"

\* a writer that keeps the first backup it ever made
write_config_at_KeepFirstBackup(fs, config, config_file) ==
    [fs EXCEPT
        !.backup[config_file] =
            IF fs.json[config_file] # NoFile /\ @ = NoFile
            THEN fs.json[config_file] ELSE @,
        !.json[config_file] = config]

\* write_config_at: copy an existing file to the backup, then write
write_config_at(fs, config, config_file) ==
    [fs EXCEPT
        !.backup[config_file] =
            IF fs.json[config_file] # NoFile THEN fs.json[config_file] ELSE @,
        !.json[config_file] = config]

-----------------------------------------------------------------------------
(* Markdown front-matter store *)

MdFile(fm, body) == [t |-> "md", fm |-> fm, body |-> body]

\* parse_md_file: the front-matter mapping and the trimmed body
parse_md_file(fs, p) ==
    LET f == fs.md[p[1]][p[2]]
    IN  [frontmatter |-> f.fm, body |-> Trim(f.body)]

\* the entries write_md_file keeps: those whose value is not null
cleaned_frontmatter(fm) ==
    [k \in {x \in DOMAIN fm : ~is_null(fm[x])} |-> fm[k]]

\* a writer that serializes the mapping as given, null values included
write_md_file_KeepNull(fs, p, frontmatter, body) ==
    [fs EXCEPT !.md[p[1]][p[2]] = MdFile(frontmatter, body)]

\* write_md_file
write_md_file(fs, p, frontmatter, body) ==
    [fs EXCEPT !.md[p[1]][p[2]] = MdFile(cleaned_frontmatter(frontmatter), body)]

(* The text of a Markdown file.  The YAML block that serde_yaml produces  *)
(* for a mapping is one element of the text, named after the mapping, and *)
(* is read back as that mapping; anything else decodes to no mapping.      *)

YamlDocs ==
    {[text |-> "{}", value |-> EmptyMap],
     [text |-> "description: d", value |-> [description |-> Str(<<"d">>)]],
     [text |-> "description: d model: a",
      value |-> [description |-> Str(<<"d">>), model |-> Str(<<"a">>)]]}

\* serde_yaml::to_string: the block and its final newline
yaml_to_string(fm) == <<(CHOOSE d \in YamlDocs : d.value = fm).text, "\n">>

\* serde_yaml::from_str(..).unwrap_or_default()
yaml_from_str(yaml_str) ==
    IF Len(yaml_str) = 1 /\ \E d \in YamlDocs : d.text = yaml_str[1]
    THEN (CHOOSE d \in YamlDocs : d.text = yaml_str[1]).value
    ELSE EmptyMap

Fence == <<"-", "-", "-", "\n">>

\* write_md_file: format!("---\n{}---\n\n{}", yaml_str, body)
md_content(frontmatter, body) ==
    Fence \o yaml_to_string(cleaned_frontmatter(frontmatter)) \o Fence \o <<"\n">> \o body

\* positions where "\n---\n" starts after the opening fence
FenceEnds(content) ==
    {i \in 5..(Len(content) - 4) : SubSeq(content, i, i + 4) = <<"\n">> \o Fence}

\* a parser whose first group is greedy: the block runs to the last fence
parse_md_content_Greedy(content) ==
    IF /\ Len(content) >= 4
       /\ SubSeq(content, 1, 4) = Fence
       /\ FenceEnds(content) # {}
    THEN LET i == CHOOSE x \in FenceEnds(content) : \A y \in FenceEnds(content) : x >= y
         IN  [frontmatter |-> yaml_from_str(SubSeq(content, 5, i - 1)),
              body |-> Trim(SubSeq(content, i + 5, Len(content)))]
    ELSE [frontmatter |-> EmptyMap, body |-> Trim(content)]

\* parse_md_file on a text: (?s)^---\n(.*?)\n---\n(.*)$ with a lazy first
\* group, the block decoded and the rest trimmed; without a match the whole
\* trimmed text is the body
parse_md_content(content) ==
    IF /\ Len(content) >= 4
       /\ SubSeq(content, 1, 4) = Fence
       /\ FenceEnds(content) # {}
    THEN LET i == CHOOSE x \in FenceEnds(content) : \A y \in FenceEnds(content) : x <= y
         IN  [frontmatter |-> yaml_from_str(SubSeq(content, 5, i - 1)),
              body |-> Trim(SubSeq(content, i + 5, Len(content)))]
    ELSE [frontmatter |-> EmptyMap, body |-> Trim(content)]

-----------------------------------------------------------------------------
(* Artifact resolver: update_agent / update_command                        *)
(* (ensure_dirs only creates directories, which hold no content)           *)

\* a placement that prefers the front-matter whenever Markdown data is held
OrdinaryTarget_MdFirst(in_json, in_md, md_exists, creating_new_md, has_md) ==
    IF has_md THEN "md" ELSE "json"

\* a placement that adds a field no source holds to the JSON section unless
\* a file is being created
OrdinaryTarget_NewToJson(in_json, in_md, md_exists, creating_new_md, has_md) ==
    IF in_json THEN "json"
    ELSE IF in_md \/ creating_new_md THEN (IF has_md THEN "md" ELSE "skip")
    ELSE "json"

\* where a non-null ordinary field is set: the JSON section when it holds
\* the field, else the front-matter when it holds the field or a file is
\* being created, else the front-matter when Markdown data is held, else the
\* JSON section
OrdinaryTarget(in_json, in_md, md_exists, creating_new_md, has_md) ==
    IF in_json THEN "json"
    ELSE IF in_md \/ creating_new_md THEN (IF has_md THEN "md" ELSE "skip")
    ELSE IF (md_exists \/ creating_new_md) /\ has_md THEN "md"
    ELSE "json"

\* a removal that stops at the first source that held the field
RemoveField_FirstSourceOnly(st, field, md_exists) ==
    IF md_exists /\ st.has_md /\ field \in DOMAIN st.frontmatter
    THEN [st EXCEPT !.frontmatter = Del(@, field), !.md_modified = TRUE]
    ELSE IF field \in DOMAIN st.existing
    THEN [st EXCEPT !.existing = Del(@, field), !.json_modified = TRUE]
    ELSE st

\* a null value: the field leaves the front-matter when a Markdown file
\* exists, and leaves the copy of the JSON section
RemoveField(st, field, md_exists) ==
    LET st1 == IF md_exists /\ st.has_md /\ field \in DOMAIN st.frontmatter
               THEN [st EXCEPT !.frontmatter = Del(@, field),
                               !.md_modified = TRUE]
               ELSE st
    IN  IF field \in DOMAIN st1.existing
        THEN [st1 EXCEPT !.existing = Del(@, field), !.json_modified = TRUE]
        ELSE st1

\* a content update that puts the text in the section whatever it holds
SetContent_Inline(st, field, value, md_exists, creating_new_md) ==
    LET normalized_value == as_str_or_empty(value)
    IN  IF md_exists \/ creating_new_md THEN
            IF st.has_md
            THEN [st EXCEPT !.body = normalized_value, !.md_modified = TRUE]
            ELSE st
        ELSE [st EXCEPT !.existing = Put(@, field, Str(normalized_value)),
                        !.json_modified = TRUE]

\* a non-null content field: the body when Markdown data is held, else the
\* file a {file:...} reference in the section names, else the section
SetContent(st, field, value, md_exists, creating_new_md) ==
    LET normalized_value == as_str_or_empty(value)
    IN  IF md_exists \/ creating_new_md THEN
            IF st.has_md
            THEN [st EXCEPT !.body = normalized_value, !.md_modified = TRUE]
            ELSE st
        ELSE IF /\ field \in DOMAIN st.existing
                /\ st.existing[field].t = "str"
                /\ is_prompt_file_reference(st.existing[field].s)
        THEN IF resolve_prompt_file_path(st.existing[field].s) # NoFilePath
             THEN [st EXCEPT !.fs = write_prompt_file(@,
                       resolve_prompt_file_path(st.existing[field].s),
                       normalized_value)]
             ELSE [st EXCEPT !.err = TRUE]
        ELSE [st EXCEPT !.existing = Put(@, field, Str(normalized_value)),
                        !.json_modified = TRUE]

\* a placement that also refreshes the front-matter copy of a JSON field
SetOrdinary_BothSources(st, field, value, md_exists, creating_new_md) ==
    LET in_md == st.has_md /\ field \in DOMAIN st.frontmatter
        in_json == field \in DOMAIN st.existing
        target == OrdinaryTarget(in_json, in_md, md_exists, creating_new_md, st.has_md)
    IN  IF target = "json"
        THEN IF in_md
             THEN [st EXCEPT !.existing = Put(@, field, value),
                             !.json_modified = TRUE,
                             !.frontmatter = Put(@, field, value),
                             !.md_modified = TRUE]
             ELSE [st EXCEPT !.existing = Put(@, field, value),
                             !.json_modified = TRUE]
        ELSE IF target = "md"
        THEN [st EXCEPT !.frontmatter = Put(@, field, value),
                        !.md_modified = TRUE]
        ELSE st

\* a non-null ordinary field, set where OrdinaryTarget says
SetOrdinary(st, field, value, md_exists, creating_new_md) ==
    LET in_md == st.has_md /\ field \in DOMAIN st.frontmatter
        in_json == field \in DOMAIN st.existing
        target == OrdinaryTarget(in_json, in_md, md_exists, creating_new_md, st.has_md)
    IN  IF target = "json"
        THEN [st EXCEPT !.existing = Put(@, field, value),
                        !.json_modified = TRUE]
        ELSE IF target = "md"
        THEN [st EXCEPT !.frontmatter = Put(@, field, value),
                        !.md_modified = TRUE]
        ELSE st

\* One pass of the loop over updates.  st carries md_data (has_md,
\* frontmatter, body), the copy of the JSON section (existing), the two
\* modified flags, the file system (for a referenced prompt file) and the
\* early error return.
UpdateField(st, k, field, value, md_exists, creating_new_md) ==
    IF st.err THEN st
    ELSE IF is_null(value) THEN RemoveField(st, field, md_exists)
    ELSE IF field = ContentField(k)
    THEN SetContent(st, field, value, md_exists, creating_new_md)
    ELSE SetOrdinary(st, field, value, md_exists, creating_new_md)

\* for (field, value) in updates.iter(): every field reads and writes only
\* its own key, so the iteration order of the map does not show
RECURSIVE UpdateLoop(_, _, _, _, _, _)
UpdateLoop(st, k, updates, todo, md_exists, creating_new_md) ==
    IF todo = {} THEN st
    ELSE LET field == CHOOSE f \in todo : TRUE
         IN  UpdateLoop(
                 UpdateField(st, k, field, updates[field], md_exists, creating_new_md),
                 k, updates, todo \ {field}, md_exists, creating_new_md)

\* an insertion that starts the section afresh and loses its other members
InsertSection_FreshSection(config, section_key, name, section) ==
    LET config_obj == IF is_object(config) THEN config.m ELSE EmptyMap
    IN  Obj(Put(config_obj, section_key, Obj(Put(EmptyMap, name, section))))

\* The document with <section_key>.<name> set to the section
InsertSection(config, section_key, name, section) ==
    LET config_obj == IF is_object(config) THEN config.m ELSE EmptyMap
        entry == IF section_key \in DOMAIN config_obj /\ is_object(config_obj[section_key])
                 THEN config_obj[section_key].m ELSE EmptyMap
    IN  Obj(Put(config_obj, section_key, Obj(Put(entry, name, section))))

LayerDoc(layers, layer) ==
    CASE layer = "custom" -> layers.custom
      [] layer = "project" -> layers.project
      [] OTHER -> layers.user

\* a resolver that persists the section after every call
JsonWriteNeeded_Always(json_modified, md_exists, had_json_fields) == TRUE

\* the JSON document is written when a JSON field changed, unless a Markdown
\* source existed and the section had no fields
JsonWriteNeeded(json_modified, md_exists, had_json_fields) ==
    json_modified /\ ~(md_exists /\ ~had_json_fields)

\* a resolver that never takes an update for the first customization of a
\* built-in
is_builtin_override_Never(md_exists, had_json_fields) == FALSE

\* the update is taken for the first customization of a built-in: no
\* Markdown file and no fields in the JSON section
is_builtin_override(md_exists, had_json_fields) == ~md_exists /\ ~had_json_fields

\* a file write that a call has decided on, or none
NoWrite == [t |-> "none"]
MdWrite(path, frontmatter, body) ==
    [t |-> "md", path |-> path, frontmatter |-> frontmatter, body |-> body]
JsonWrite(path, config) == [t |-> "json", path |-> path, config |-> config]

\* update_agent / update_command up to the write phase: what the call has
\* read from fs, the outcome of the field loop, and the writes it decides on
update_agent_prepare(fs, k, name, updates, wd) ==
    LET write_path == get_agent_write_path(fs, wd, None)
        md_path == write_path.path
        md_exists == exists_md(fs, md_path)
        layers == read_config_layers(fs, wd)
        json_source == get_json_entry_source(layers, SectionKey(k), name)
        existing_agent == IF json_source.exists /\ is_object(json_source.section)
                          THEN json_source.section.m ELSE EmptyMap
        had_json_fields == existing_agent # EmptyMap
        preferred_scope == IF wd # None THEN "project" ELSE "user"
        json_target_path == IF json_source.exists THEN json_source.path
                            ELSE get_json_write_target(layers, preferred_scope)
        config == LayerDoc(layers, get_config_for_path(layers, json_target_path))
        creating_new_md == is_builtin_override(md_exists, had_json_fields)
        target_path == IF ~md_exists /\ creating_new_md
                       THEN get_user_agent_path(fs) ELSE md_path
        md0 == IF md_exists THEN parse_md_file(fs, md_path)
               ELSE [frontmatter |-> EmptyMap, body |-> << >>]
        st0 == [has_md |-> md_exists \/ creating_new_md,
                frontmatter |-> md0.frontmatter, body |-> md0.body,
                existing |-> existing_agent,
                md_modified |-> FALSE, json_modified |-> FALSE,
                fs |-> fs, err |-> FALSE]
        st == UpdateLoop(st0, k, updates, DOMAIN updates, md_exists, creating_new_md)
        json_modified == JsonWriteNeeded(st.json_modified, md_exists, had_json_fields)
    IN  [err |-> st.err, fs |-> st.fs,
         md_path |-> md_path, md_exists |-> md_exists,
         md_write |-> IF st.md_modified /\ st.has_md
                      THEN MdWrite(target_path, st.frontmatter, st.body)
                      ELSE NoWrite,
         json_write |-> IF json_modified
                        THEN JsonWrite(json_target_path,
                                 InsertSection(config, SectionKey(k), name,
                                               Obj(st.existing)))
                        ELSE NoWrite,
         md |-> st.md_modified, json |-> json_modified]

\* the write phase of update_agent / update_command on what the call has
\* prepared: the file system after the call and the result
update_agent_write(c) ==
    LET fs1 == IF c.md_write # NoWrite
               THEN write_md_file(c.fs, c.md_write.path,
                                  c.md_write.frontmatter, c.md_write.body)
               ELSE c.fs
        fs2 == IF c.json_write # NoWrite
               THEN write_config_at(fs1, c.json_write.config, c.json_write.path)
               ELSE fs1
    IN  IF c.err
        THEN [fs |-> c.fs, ok |-> FALSE, error |-> "InvalidReference",
              md |-> FALSE, json |-> FALSE]
        ELSE [fs |-> fs2, ok |-> TRUE, error |-> None,
              md |-> c.md, json |-> c.json]

\* update_agent / update_command: the file system after the call and the
\* result
update_agent(fs, k, name, updates, wd) ==
    IF read_config_layers_err(fs, wd)
    THEN [fs |-> fs, ok |-> FALSE, error |-> "ParseError"]
    ELSE update_agent_write(update_agent_prepare(fs, k, name, updates, wd))

-----------------------------------------------------------------------------
(* Artifact resolver: create_agent / create_command *)

\* a create that looks for Markdown files only
create_agent_MarkdownOnly(fs, k, name, config, wd, scope) ==
    LET user_path == get_user_agent_path(fs)
        target_path == IF scope = "project" /\ wd # None
                       THEN get_project_agent_path(fs) ELSE user_path
        prompt == IF ContentField(k) \in DOMAIN config
                  THEN as_str_or_empty(config[ContentField(k)]) ELSE << >>
        frontmatter == Del(Del(config, ContentField(k)), "scope")
    IN  IF wd # None /\ exists_md(fs, get_project_agent_path(fs))
        THEN [fs |-> fs, ok |-> FALSE, error |-> "AlreadyExists"]
        ELSE IF exists_md(fs, user_path)
        THEN [fs |-> fs, ok |-> FALSE, error |-> "AlreadyExists"]
        ELSE [fs |-> write_md_file(fs, target_path, frontmatter, prompt),
              ok |-> TRUE, error |-> None]

create_agent(fs, k, name, config, wd, scope) ==
    LET user_path == get_user_agent_path(fs)
        layers == read_config_layers(fs, wd)
        json_source == get_json_entry_source(layers, SectionKey(k), name)
        target_path == IF scope = "project" /\ wd # None
                       THEN get_project_agent_path(fs) ELSE user_path
        prompt == IF ContentField(k) \in DOMAIN config
                  THEN as_str_or_empty(config[ContentField(k)]) ELSE << >>
        frontmatter == Del(Del(config, ContentField(k)), "scope")
    IN  IF wd # None /\ exists_md(fs, get_project_agent_path(fs))
        THEN [fs |-> fs, ok |-> FALSE, error |-> "AlreadyExists"]
        ELSE IF exists_md(fs, user_path)
        THEN [fs |-> fs, ok |-> FALSE, error |-> "AlreadyExists"]
        ELSE IF read_config_layers_err(fs, wd)
        THEN [fs |-> fs, ok |-> FALSE, error |-> "ParseError"]
        ELSE IF json_source.exists
        THEN [fs |-> fs, ok |-> FALSE, error |-> "AlreadyExists"]
        ELSE [fs |-> write_md_file(fs, target_path, frontmatter, prompt),
              ok |-> TRUE, error |-> None]

-----------------------------------------------------------------------------
(* Artifact resolver: delete_agent / delete_command *)

remove_file(fs, p) == [fs EXCEPT !.md[p[1]][p[2]] = NoFile]

\* steps 1 and 2: the project file (with a working directory), then the
\* user file
DeleteProjectMd(fs, wd) ==
    IF wd # None /\ exists_md(fs, get_project_agent_path(fs))
    THEN [fs |-> remove_file(fs, get_project_agent_path(fs)), deleted |-> TRUE]
    ELSE [fs |-> fs, deleted |-> FALSE]

DeleteUserMd(fs) ==
    IF exists_md(fs, get_user_agent_path(fs))
    THEN [fs |-> remove_file(fs, get_user_agent_path(fs)), deleted |-> TRUE]
    ELSE [fs |-> fs, deleted |-> FALSE]

RECURSIVE RemoveFromLayers(_, _, _, _)
RemoveFromLayers(fs, todo, sk, name) ==
    IF todo = {} THEN fs
    ELSE LET l == CHOOSE x \in todo : TRUE
             doc == fs.json[l]
         IN  RemoveFromLayers(
                 IF doc # NoFile /\ LayerHasEntry(doc, sk, name)
                 THEN write_config_at(fs,
                          Obj(Put(doc.m, sk, Obj(Del(doc.m[sk].m, name)))), l)
                 ELSE fs,
                 todo \ {l}, sk, name)

\* a removal that clears the section from every layer the call loads
DeleteJsonSection_AllLayers(fs, k, name, wd) ==
    LET layers == read_config_layers(fs, wd)
        json_source == get_json_entry_source(layers, SectionKey(k), name)
        loaded == {l \in Layers : l = UserPath
                                  \/ (l = ProjectPath /\ layers.paths.project # None)
                                  \/ (l = CustomPath /\ layers.paths.custom # None)}
    IN  [fs |-> RemoveFromLayers(fs, loaded, SectionKey(k), name),
         deleted |-> json_source.exists]

\* a removal that leaves a section alone when it is the disable marker
SectionRemoval_KeepDisabled(fs, k, name, wd) ==
    LET layers == read_config_layers(fs, wd)
        json_source == get_json_entry_source(layers, SectionKey(k), name)
        config == LayerDoc(layers, get_config_for_path(layers, json_source.path))
        removable == /\ json_source.exists
                     /\ HasKey(config, SectionKey(k))
                     /\ HasKey(config.m[SectionKey(k)], name)
                     /\ config.m[SectionKey(k)].m[name]
                            # Obj(Put(EmptyMap, "disable", Bool(TRUE)))
    IN  IF removable
        THEN JsonWrite(json_source.path,
                 Obj(Put(config.m, SectionKey(k),
                         Obj(Del(config.m[SectionKey(k)].m, name)))))
        ELSE NoWrite

\* step 3 up to the write: the document without the section of the
\* highest-precedence layer that defines it, or no write
SectionRemoval(fs, k, name, wd) ==
    LET layers == read_config_layers(fs, wd)
        json_source == get_json_entry_source(layers, SectionKey(k), name)
        config == LayerDoc(layers, get_config_for_path(layers, json_source.path))
        removable == /\ json_source.exists
                     /\ HasKey(config, SectionKey(k))
                     /\ HasKey(config.m[SectionKey(k)], name)
    IN  IF removable
        THEN JsonWrite(json_source.path,
                 Obj(Put(config.m, SectionKey(k),
                         Obj(Del(config.m[SectionKey(k)].m, name)))))
        ELSE NoWrite

\* step 3: the section of the highest-precedence layer that defines it
DeleteJsonSection(fs, k, name, wd) ==
    LET w == SectionRemoval(fs, k, name, wd)
    IN  IF w # NoWrite
        THEN [fs |-> write_config_at(fs, w.config, w.path), deleted |-> TRUE]
        ELSE [fs |-> fs, deleted |-> FALSE]

\* step 4 up to the write: the document of the write target with the
\* built-in disabled
DisableEntry(fs, name, wd) ==
    LET layers == read_config_layers(fs, wd)
        preferred_scope == IF wd # None THEN "project" ELSE "user"
        json_path == get_json_write_target(layers, preferred_scope)
        config == LayerDoc(layers, get_config_for_path(layers, json_path))
    IN  JsonWrite(json_path,
            InsertSection(config, "agent", name,
                          Obj(Put(EmptyMap, "disable", Bool(TRUE)))))

\* step 4 of delete_agent: disable the built-in at the write target
DisableBuiltin(fs, name, wd) ==
    LET w == DisableEntry(fs, name, wd)
    IN  write_config_at(fs, w.config, w.path)

\* a delete that disables the missing artifact whatever its kind
delete_agent_AlwaysDisable(fs, k, name, wd) ==
    LET d1 == DeleteProjectMd(fs, wd)
        d2 == DeleteUserMd(d1.fs)
        d3 == DeleteJsonSection(d2.fs, k, name, wd)
        deleted == d1.deleted \/ d2.deleted \/ d3.deleted
    IN  IF deleted THEN [fs |-> d3.fs, ok |-> TRUE, error |-> None]
        ELSE [fs |-> DisableBuiltin(d3.fs, name, wd), ok |-> TRUE, error |-> None]

\* delete_agent / delete_command
delete_agent(fs, k, name, wd) ==
    LET d1 == DeleteProjectMd(fs, wd)
        d2 == DeleteUserMd(d1.fs)
        d3 == DeleteJsonSection(d2.fs, k, name, wd)
        deleted == d1.deleted \/ d2.deleted \/ d3.deleted
    IN  IF read_config_layers_err(d2.fs, wd)
        THEN [fs |-> d2.fs, ok |-> FALSE, error |-> "ParseError"]
        ELSE IF deleted THEN [fs |-> d3.fs, ok |-> TRUE, error |-> None]
        ELSE IF k = "agent"
        THEN [fs |-> DisableBuiltin(d3.fs, name, wd), ok |-> TRUE, error |-> None]
        ELSE [fs |-> d3.fs, ok |-> FALSE, error |-> "NotFound"]

-----------------------------------------------------------------------------
(* Comment stripping: strip_json_comments *)

\* a line comment loop that drops the newline it stops at
SkipLineComment_DropNewline(content, i) ==
    IF \E j \in i..Len(content) : content[j] = "\n"
    THEN [i |-> 1 + (CHOOSE j \in i..Len(content) :
                        /\ content[j] = "\n"
                        /\ \A x \in i..(j - 1) : content[x] # "\n"),
          newline |-> FALSE]
    ELSE [i |-> Len(content) + 1, newline |-> FALSE]

\* the loop of a line comment, from the character at i on: the index it
\* leaves the iterator at, and whether it pushed the newline it stopped at
RECURSIVE SkipLineComment(_, _)
SkipLineComment(content, i) ==
    IF i > Len(content) THEN [i |-> i, newline |-> FALSE]
    ELSE IF content[i] = "\n" THEN [i |-> i + 1, newline |-> TRUE]
    ELSE SkipLineComment(content, i + 1)

\* the loop of a block comment, from the character at i on, prev being the
\* character read before: the index it leaves the iterator at
RECURSIVE SkipBlockComment(_, _, _)
SkipBlockComment(content, i, prev) ==
    IF i > Len(content) THEN i
    ELSE IF prev = "*" /\ content[i] = "/" THEN i + 1
    ELSE SkipBlockComment(content, i + 1, content[i])

\* chars.peek() after the character at i
Peek(content, i) == IF i < Len(content) THEN content[i + 1] ELSE None

\* the while loop of strip_json_comments from the character at i on
RECURSIVE StripLoop(_, _, _, _, _)
StripLoop(content, i, result, in_string, escape_next) ==
    IF i > Len(content) THEN result
    ELSE IF escape_next
    THEN StripLoop(content, i + 1, Append(result, content[i]), in_string, FALSE)
    ELSE IF content[i] = "\\" /\ in_string
    THEN StripLoop(content, i + 1, Append(result, content[i]), in_string, TRUE)
    ELSE IF content[i] = "\""
    THEN StripLoop(content, i + 1, Append(result, content[i]), ~in_string, FALSE)
    ELSE IF ~in_string /\ content[i] = "/" /\ Peek(content, i) = "/"
    THEN StripLoop(content, SkipLineComment(content, i + 2).i,
                   IF SkipLineComment(content, i + 2).newline
                   THEN Append(result, "\n") ELSE result,
                   in_string, FALSE)
    ELSE IF ~in_string /\ content[i] = "/" /\ Peek(content, i) = "*"
    THEN StripLoop(content, SkipBlockComment(content, i + 2, " "), result,
                   in_string, FALSE)
    ELSE StripLoop(content, i + 1, Append(result, content[i]), in_string, FALSE)

\* strip_json_comments
strip_json_comments(content) == StripLoop(content, 1, << >>, FALSE, FALSE)

-----------------------------------------------------------------------------
(* Provider entries: remove_provider_config *)

\* a removal that keeps the key of a section it has emptied
RemoveFromSection_KeepEmpty(config, key, provider_id) ==
    IF HasKey(config, key) /\ HasKey(config.m[key], provider_id)
    THEN [config |-> Obj(Put(config.m, key, Obj(Del(config.m[key].m, provider_id)))),
          removed |-> TRUE, remove_key |-> FALSE]
    ELSE [config |-> config, removed |-> FALSE, remove_key |-> FALSE]

\* one section of the document: the id removed from the object under key,
\* and whether that left the object empty
RemoveFromSection(config, key, provider_id) ==
    IF HasKey(config, key) /\ HasKey(config.m[key], provider_id)
    THEN [config |-> Obj(Put(config.m, key, Obj(Del(config.m[key].m, provider_id)))),
          removed |-> TRUE,
          remove_key |-> DOMAIN config.m[key].m = {provider_id}]
    ELSE [config |-> config, removed |-> FALSE, remove_key |-> FALSE]

\* config.as_object_mut().map(|map| map.remove(key)) when the flag is set
DropKey(config, key, flag) ==
    IF flag /\ is_object(config) THEN Obj(Del(config.m, key)) ELSE config

\* the path of the requested scope, None when it is not available
ProviderTargetPath(layers, scope) ==
    CASE scope = "project" -> layers.paths.project
      [] scope = "custom" -> layers.paths.custom
      [] OTHER -> layers.paths.user

\* remove_provider_config: [fs, ok, error, result]
remove_provider_config(fs, provider_id, wd, scope) ==
    LET layers == read_config_layers(fs, wd)
        target_path == ProviderTargetPath(layers, scope)
        config == LayerDoc(layers, get_config_for_path(layers, target_path))
        r1 == RemoveFromSection(config, "provider", provider_id)
        r2 == RemoveFromSection(r1.config, "providers", provider_id)
        written == DropKey(DropKey(r2.config, "provider", r1.remove_key),
                           "providers", r2.remove_key)
    IN  IF Trim(provider_id) = << >>
        THEN [fs |-> fs, ok |-> FALSE, error |-> "IdRequired", result |-> NoValue]
        ELSE IF read_config_layers_err(fs, wd)
        THEN [fs |-> fs, ok |-> FALSE, error |-> "ParseError", result |-> NoValue]
        ELSE IF target_path = None
        THEN [fs |-> fs, ok |-> FALSE, error |-> "PathNotAvailable", result |-> NoValue]
        ELSE IF ~(r1.removed \/ r2.removed)
        THEN [fs |-> fs, ok |-> TRUE, error |-> None, result |-> Bool(FALSE)]
        ELSE [fs |-> write_config_at(fs, written, target_path),
              ok |-> TRUE, error |-> None, result |-> Bool(TRUE)]

-----------------------------------------------------------------------------
(* Skills: scope lookup, discovery, create, delete, supporting files       *)

get_claude_skill_dir == <<"claude", "plural">>
get_claude_skill_path == SkillMdPath(get_claude_skill_dir)

\* Path::exists on a SKILL.md path
exists_skill_path(fs, skill_name, p) == exists_skill_md(fs, skill_name, <<p[1], p[2]>>)

NoScope == [scope |-> None, path |-> NoPath, source |-> None]

\* get_skill_scope: (scope, path, source), all None when no SKILL.md is found
get_skill_scope(fs, skill_name, wd) ==
    LET project_path == get_project_skill_path(fs, skill_name)
        user_path == get_user_skill_path(fs, skill_name)
    IN  IF wd # None /\ exists_skill_path(fs, skill_name, project_path)
        THEN [scope |-> "project", path |-> project_path, source |-> "opencode"]
        ELSE IF wd # None /\ exists_skill_path(fs, skill_name, get_claude_skill_path)
        THEN [scope |-> "project", path |-> get_claude_skill_path, source |-> "claude"]
        ELSE IF exists_skill_path(fs, skill_name, user_path)
        THEN [scope |-> "user", path |-> user_path, source |-> "opencode"]
        ELSE NoScope

\* the directories discover_skills reads, in its order, with the scope and
\* source it gives their entries
DiscoverOrder(wd) ==
    (IF wd # None
     THEN <<[loc |-> <<"project", "plural">>, scope |-> "project", source |-> "opencode"],
            [loc |-> <<"project", "legacy">>, scope |-> "project", source |-> "opencode"],
            [loc |-> <<"claude", "plural">>, scope |-> "project", source |-> "claude"]>>
     ELSE << >>)
    \o <<[loc |-> <<"user", "plural">>, scope |-> "user", source |-> "opencode"],
         [loc |-> <<"user", "legacy">>, scope |-> "user", source |-> "opencode"]>>

\* a discovery that keeps every entry it meets
AddSkills_NoDedup(fs, skills, d) ==
    skills \cup
    {[name |-> n, path |-> SkillMdPath(d.loc), scope |-> d.scope, source |-> d.source] :
        n \in {x \in SkillNames : exists_skill_md(fs, x, d.loc)}}

\* the entries one directory adds: add_skill keeps a name that is there
AddSkills(fs, skills, d) ==
    skills \cup
    {[name |-> n, path |-> SkillMdPath(d.loc), scope |-> d.scope, source |-> d.source] :
        n \in {x \in SkillNames : /\ exists_skill_md(fs, x, d.loc)
                                  /\ \A e \in skills : e.name # x}}

RECURSIVE DiscoverFrom(_, _, _)
DiscoverFrom(fs, skills, order) ==
    IF order = << >> THEN skills
    ELSE DiscoverFrom(fs, AddSkills(fs, skills, Head(order)), Tail(order))

\* discover_skills: the entries, in no order
discover_skills(fs, wd) == DiscoverFrom(fs, {}, DiscoverOrder(wd))

\* a relative path as Path::join reads it: the components between "/"
RECURSIVE Components(_)
Components(s) ==
    IF \A i \in 1..Len(s) : s[i] # "/" THEN <<s>>
    ELSE LET i == CHOOSE x \in 1..Len(s) : s[x] = "/" /\ \A y \in 1..(x - 1) : s[y] # "/"
         IN  <<SubSeq(s, 1, i - 1)>> \o Components(SubSeq(s, i + 1, Len(s)))

SkillMdName == <<"S", "K", "I", "L", "L", ".", "m", "d">>

Parent(path) == SubSeq(path, 1, Len(path) - 1)

IsPrefix(a, b) == Len(a) <= Len(b) /\ SubSeq(b, 1, Len(a)) = a

\* the directory at path, below the skill directory d, has no entry
IsEmptyDir(d, path) ==
    /\ \A f \in DOMAIN d.files : ~(Len(f) > Len(path) /\ IsPrefix(path, f))
    /\ \A g \in d.dirs : ~(Len(g) > Len(path) /\ IsPrefix(path, g))
    /\ ~(path = << >> /\ d.md # NoFile)

\* fs::create_dir_all on a skill directory
create_dir_all(fs, skill_name, loc) ==
    IF fs.skill[skill_name][loc] = NoDir
    THEN [fs EXCEPT !.skill[skill_name][loc] = SkillDir(NoFile, EmptyMap, {})]
    ELSE fs

\* fs::remove_dir_all on a skill directory
remove_dir_all(fs, skill_name, loc) == [fs EXCEPT !.skill[skill_name][loc] = NoDir]

\* write_md_file on the SKILL.md of a skill directory
write_skill_md(fs, skill_name, loc, frontmatter, body) ==
    [fs EXCEPT !.skill[skill_name][loc].md = MdFile(cleaned_frontmatter(frontmatter), body)]

\* write_skill_supporting_file: the parents are created, the file written
write_skill_supporting_file(fs, skill_name, loc, relative_path, content) ==
    LET path == Components(relative_path)
    IN  [fs EXCEPT !.skill[skill_name][loc].files = Put(@, path, content),
                   !.skill[skill_name][loc].dirs =
                       @ \cup {SubSeq(path, 1, n) : n \in 1..(Len(path) - 1)}]

\* a clean-up that removes the parent directory only
PruneFrom_ParentOnly(d, parent) ==
    IF parent = << >> THEN d
    ELSE IF IsEmptyDir(d, parent)
    THEN [d EXCEPT !.dirs = @ \ {parent}]
    ELSE d

\* the loop that cleans up empty parent directories, from parent upwards
RECURSIVE PruneFrom(_, _)
PruneFrom(d, parent) ==
    IF parent = << >> THEN d
    ELSE IF IsEmptyDir(d, parent)
    THEN PruneFrom([d EXCEPT !.dirs = @ \ {parent}], Parent(parent))
    ELSE d

\* delete_skill_supporting_file; skill_dir is the directory at loc.
\* remove_file fails on a directory.
delete_skill_supporting_file(fs, skill_name, loc, relative_path) ==
    LET d == fs.skill[skill_name][loc]
        path == Components(relative_path)
    IN  IF d = NoDir THEN [fs |-> fs, ok |-> TRUE, error |-> None]
        ELSE IF path \in DOMAIN d.files
        THEN [fs |-> [fs EXCEPT !.skill[skill_name][loc] =
                          PruneFrom([d EXCEPT !.files = Del(@, path)], Parent(path))],
              ok |-> TRUE, error |-> None]
        ELSE IF path = <<SkillMdName>> /\ d.md # NoFile
        THEN [fs |-> [fs EXCEPT !.skill[skill_name][loc].md = NoFile],
              ok |-> TRUE, error |-> None]
        ELSE IF path \in d.dirs \/ relative_path = << >>
        THEN [fs |-> fs, ok |-> FALSE, error |-> "IOError"]
        ELSE [fs |-> fs, ok |-> TRUE, error |-> None]

\* the program's limit on the length of a skill name
MaxSkillNameLen == 64

LowerAlnum ==
    {"a", "b", "c", "d", "e", "f", "g", "h", "i", "j", "k", "l", "m", "n", "o", "p",
     "q", "r", "s", "t", "u", "v", "w", "x", "y", "z",
     "0", "1", "2", "3", "4", "5", "6", "7", "8", "9"}

\* a validation that only looks at the characters
validate_skill_name_NoEnds(skill_name) ==
    /\ Len(skill_name) >= 1
    /\ \A i \in 1..Len(skill_name) : skill_name[i] \in LowerAlnum \cup {"-"}
    /\ Len(skill_name) <= MaxSkillNameLen

\* validate_skill_name: ^[a-z0-9][a-z0-9-]*[a-z0-9]$|^[a-z0-9]$ and at most
\* 64 bytes; TRUE stands for Ok
validate_skill_name(skill_name) ==
    /\ \/ /\ Len(skill_name) >= 2
          /\ skill_name[1] \in LowerAlnum
          /\ \A i \in 2..(Len(skill_name) - 1) : skill_name[i] \in LowerAlnum \cup {"-"}
          /\ skill_name[Len(skill_name)] \in LowerAlnum
       \/ /\ Len(skill_name) = 1
          /\ skill_name[1] \in LowerAlnum
    /\ ~(Len(skill_name) > MaxSkillNameLen)

\* the supporting files of a create configuration that have a path and a
\* content, both strings
SupportingFilesOf(config) ==
    IF "supportingFiles" \in DOMAIN config /\ config["supportingFiles"].t = "arr"
    THEN SelectSeq(config["supportingFiles"].a,
                   LAMBDA file : /\ file.t = "obj"
                                 /\ "path" \in DOMAIN file.m /\ file.m["path"].t = "str"
                                 /\ "content" \in DOMAIN file.m /\ file.m["content"].t = "str")
    ELSE << >>

RECURSIVE WriteSupportingFiles(_, _, _, _)
WriteSupportingFiles(fs, skill_name, loc, supporting_files) ==
    IF supporting_files = << >> THEN fs
    ELSE WriteSupportingFiles(
             write_skill_supporting_file(fs, skill_name, loc,
                 Head(supporting_files).m["path"].s, Head(supporting_files).m["content"].s),
             skill_name, loc, Tail(supporting_files))

\* ensure_project_skill_dir: the resolved project directory and the legacy
\* project directory are created
ensure_project_skill_dir(fs, skill_name) ==
    create_dir_all(create_dir_all(fs, skill_name, get_project_skill_dir(fs, skill_name)),
                   skill_name, <<"project", "legacy">>)

\* !frontmatter.contains_key("description") is the error
HasDescription(frontmatter) == "description" \in DOMAIN frontmatter

\* create_skill.  The target directory is created before the description
\* is looked at.
create_skill(fs, skill_name, config, wd, scope) ==
    IF ~validate_skill_name(skill_name)
    THEN [fs |-> fs, ok |-> FALSE, error |-> "InvalidName"]
    ELSE IF get_skill_scope(fs, skill_name, wd).path # NoPath
    THEN [fs |-> fs, ok |-> FALSE, error |-> "AlreadyExists"]
    ELSE
      LET project == scope = "project" /\ wd # None
          target_dir == IF project THEN get_project_skill_dir(fs, skill_name)
                        ELSE get_user_skill_dir(fs, skill_name)
          fs1 == IF project THEN ensure_project_skill_dir(fs, skill_name)
                 ELSE create_dir_all(fs, skill_name, target_dir)
          instructions == IF "instructions" \in DOMAIN config
                          THEN as_str_or_empty(config["instructions"]) ELSE << >>
          frontmatter0 == Del(Del(Del(config, "instructions"), "scope"), "supportingFiles")
          frontmatter == IF "name" \in DOMAIN frontmatter0 THEN frontmatter0
                         ELSE Put(frontmatter0, "name", Str(skill_name))
      IN  IF ~HasDescription(frontmatter)
          THEN [fs |-> fs1, ok |-> FALSE, error |-> "DescriptionRequired"]
          ELSE [fs |-> WriteSupportingFiles(
                           write_skill_md(fs1, skill_name, target_dir, frontmatter, instructions),
                           skill_name, target_dir, SupportingFilesOf(config)),
                ok |-> TRUE, error |-> None]

\* delete_skill: the resolved project directory, the Claude directory, the
\* resolved user directory and then the legacy user directory
delete_skill(fs, skill_name, wd) ==
    LET project_dir == get_project_skill_dir(fs, skill_name)
        d1 == wd # None /\ exists_skill_dir(fs, skill_name, project_dir)
        fs1 == IF d1 THEN remove_dir_all(fs, skill_name, project_dir) ELSE fs
        d2 == wd # None /\ exists_skill_dir(fs1, skill_name, get_claude_skill_dir)
        fs2 == IF d2 THEN remove_dir_all(fs1, skill_name, get_claude_skill_dir) ELSE fs1
        user_dir == get_user_skill_dir(fs2, skill_name)
        d3 == exists_skill_dir(fs2, skill_name, user_dir)
        fs3 == IF d3 THEN remove_dir_all(fs2, skill_name, user_dir) ELSE fs2
        d4 == exists_skill_dir(fs3, skill_name, <<"user", "legacy">>)
        fs4 == IF d4 THEN remove_dir_all(fs3, skill_name, <<"user", "legacy">>) ELSE fs3
    IN  IF d1 \/ d2 \/ d3 \/ d4
        THEN [fs |-> fs4, ok |-> TRUE, error |-> None]
        ELSE [fs |-> fs4, ok |-> FALSE, error |-> "NotFound"]

-----------------------------------------------------------------------------
(* Inputs and initial states *)

Name == "foo"

\* the longest sequence of calls followed
MaxCalls == 2
WorkDirs == {None, "wd"}
RequestedScopes == {None, "user", "project"}

A == Str(<<"a">>)
B == Str(<<"b">>)
D == Str(<<"d">>)
Y == Str(<<"d", "o", " ", "Y">>)
FileRef == Str(<<"{", "f", "i", "l", "e", ":", "p", "}">>)

\* the largest updates map of a call
MaxUpdateFields == 2

UpdateFieldNames(k) == {"model", ContentField(k)}
UpdateValues == {Null, B}

UpdatesSet(k) ==
    UNION {[S -> UpdateValues] :
             S \in {T \in SUBSET UpdateFieldNames(k) : Cardinality(T) <= MaxUpdateFields}}

M(f) == [x \in DOMAIN f |-> f[x]]

\* create configurations: the scenario of the design, a scope pseudo-field,
\* a null-valued key, a content field that is not a string, no content
CreateConfigs(k) ==
    {M(("description" :> D) @@ (ContentField(k) :> Y)),
     M(("description" :> D) @@ (ContentField(k) :> Y) @@ ("scope" :> Str(<<"u">>))),
     M(("description" :> D) @@ ("model" :> Null) @@ (ContentField(k) :> B)),
     M(("model" :> A) @@ (ContentField(k) :> Bool(TRUE))),
     EmptyMap}

\* Markdown files found on disk
Md1 == MdFile(M(("model" :> A) @@ ("description" :> D)), <<" ", "x", "\n">>)
Md2 == MdFile(M(("description" :> Null)), <<"x">>)
Md3 == MdFile(EmptyMap, << >>)

NoMd == [d \in Dirs |-> NoFile]
MdDirStates ==
    {NoMd,
     [NoMd EXCEPT !["plural"] = Md1],
     [NoMd EXCEPT !["plural"] = Md2],
     [NoMd EXCEPT !["legacy"] = Md1],
     [NoMd EXCEPT !["plural"] = Md3, !["legacy"] = Md1]}

\* JSON sections of the artifact
E1 == Obj(M(("model" :> A) @@ ("description" :> D)))
E2 == Obj(EmptyMap)
E3 == Str(<<"x">>)
E4(k) == Obj(M((ContentField(k) :> FileRef)))

OtherEntry == Obj(M(("model" :> A)))

\* a document with foreign content: a theme, the section of the other
\* kind, and another artifact of this kind
DocNoFoo(k) ==
    Obj(M(("theme" :> A)
          @@ (SectionKey(OtherKind(k)) :> Obj(M((Name :> OtherEntry))))
          @@ (SectionKey(k) :> Obj(M(("other" :> OtherEntry))))))

DocFoo(k, e) ==
    Obj(Put(DocNoFoo(k).m, SectionKey(k), Obj(M(("other" :> OtherEntry) @@ (Name :> e)))))

\* a document whose section is not an object, and one that is no object
DocBadSection(k) == Obj(Put(DocNoFoo(k).m, SectionKey(k), A))
DocOnlyFoo(k, e) == Obj(M((SectionKey(k) :> Obj(M((Name :> e))))))

UserDocs(k) == {NoFile, DocNoFoo(k), DocFoo(k, E1), DocFoo(k, E4(k)), Null}
ProjectDocs(k) == {NoFile, DocFoo(k, E1), DocFoo(k, E2), DocFoo(k, E3), DocBadSection(k)}
CustomDocs(k) == {NoFile, DocNoFoo(k), DocOnlyFoo(k, E1)}

\* no skill directory anywhere
NoSkills == [skill_name \in SkillNames |-> [loc \in SkillLocs |-> NoDir]]

\* the most calls in flight at a time
NProcs == 2
Procs == 1..NProcs

\* a call that has not started
IdleProc ==
    [pc |-> "idle", op |-> None, wd |-> None, updates |-> EmptyMap,
     view |-> NoValue, seen |-> NoPath, deleted |-> FALSE, c |-> NoValue,
     todo |-> << >>, written |-> {}, json_write |-> NoValue, copied |-> NoValue,
     seq |-> 0,
     ok |-> TRUE, error |-> None, failed |-> None, pre |-> NoValue,
     began |-> 0, alone |-> TRUE]
NoProcs == [p \in Procs |-> IdleProc]

InitLast ==
    [op |-> "init", k |-> None, wd |-> None, scope |-> None, args |-> EmptyMap,
     ok |-> TRUE, error |-> None, result |-> NoValue, pre |-> NoValue]

InitWith(mdStates, userDocs, projectDocs, customDocs) ==
    /\ kind \in Kinds
    /\ customSet \in BOOLEAN
    /\ md \in [Scopes -> mdStates]
    /\ \E u \in userDocs, p \in projectDocs,
          c \in (IF customSet THEN customDocs ELSE {NoFile}) :
          json = [l \in Layers |-> CASE l = UserPath -> u [] l = ProjectPath -> p
                                     [] OTHER -> c]
    /\ backup = [l \in Layers |-> NoFile]
    /\ prompts = EmptyMap
    /\ skill = NoSkills
    /\ calls = 0
    /\ proc = NoProcs
    /\ last = InitLast

Init == InitWith(MdDirStates, UserDocs(kind), ProjectDocs(kind), CustomDocs(kind))

\* the number of places that define the artifact: the two Markdown scopes
\* and the three layers
SourceCount ==
    Cardinality({sc \in Scopes : \E d \in Dirs : md[sc][d] # NoFile})
    + Cardinality({l \in Layers : json[l] # NoFile /\ LayerHasEntry(json[l], SectionKey(kind), Name)})

\* the most places that define the artifact when a sequence of updates starts
MaxSources == 3

E5(k) == Obj(M(("model" :> A) @@ (ContentField(k) :> A)))

\* a reference in capitals to an absolute path, with blanks around it
FileRefAbs == Str(<<" ", "{", "F", "I", "L", "E", ":", " ", "/", "q", " ", "}">>)
E6(k) == Obj(M(("model" :> A) @@ (ContentField(k) :> FileRefAbs)))

\* a reference with a blank path: it has the form of a reference and names
\* no file
FileRefBlank == Str(<<"{", "f", "i", "l", "e", ":", " ", "}">>)
E7(k) == Obj(M(("model" :> A) @@ (ContentField(k) :> FileRefBlank)))

UpdateUserDocs(k) ==
    {NoFile, DocNoFoo(k), DocFoo(k, E1), DocFoo(k, E4(k)), DocFoo(k, E6(k)),
     DocFoo(k, E7(k))}
UpdateProjectDocs(k) ==
    {NoFile, DocFoo(k, E1), DocFoo(k, E2), DocFoo(k, E3), DocFoo(k, E5(k))}
UpdateCustomDocs(k) == {NoFile, DocOnlyFoo(k, E1)}

InitUpdate ==
    /\ InitWith(MdDirStates, UpdateUserDocs(kind), UpdateProjectDocs(kind),
                UpdateCustomDocs(kind))
    /\ SourceCount <= MaxSources

\* the artifact starts in at most one place: any handler may follow any other
InitSingleSource == Init /\ SourceCount <= 1

\* documents of a layer when some document cannot be parsed, and the
\* Markdown files next to them: none, a plural file, both files
ParseDocs(k) == {NoFile, DocFoo(k, E1), Unparsable}
ParseMdStates ==
    {NoMd, [NoMd EXCEPT !["plural"] = Md1],
     [NoMd EXCEPT !["plural"] = Md3, !["legacy"] = Md1]}

InitParse ==
    /\ InitWith(ParseMdStates, ParseDocs(kind), ParseDocs(kind), {NoFile, Unparsable})
    /\ \E l \in Layers : json[l] = Unparsable

\* provider ids: one that documents hold, one that none holds, blank ones
PX == <<"x">>
PY == <<"y">>
PZ == <<"z">>
ProviderIds == {PX, PZ, <<" ">>, << >>}
ProviderScopes == {"user", "project", "custom"}

ProviderMap(ids) == [id \in ids |-> Obj(M(("name" :> A)))]

\* documents with provider entries: the id alone in provider; the id in
\* both sections, alone in providers; the id in neither, next to an empty
\* section; a provider section that is no object
V1 == Obj(M(("theme" :> A) @@ ("provider" :> Obj(ProviderMap({PX})))))
V2 == Obj(M(("theme" :> A) @@ ("provider" :> Obj(ProviderMap({PX, PY})))
            @@ ("providers" :> Obj(ProviderMap({PX})))))
V3 == Obj(M(("provider" :> Obj(EmptyMap)) @@ ("providers" :> Obj(ProviderMap({PY})))))
V4 == Obj(M(("provider" :> A) @@ ("providers" :> Obj(ProviderMap({PX, PY})))))

ProviderUserDocs == {NoFile, V1, V2, V3, Unparsable}
ProviderProjectDocs == {NoFile, V1, V2, V4, Null, Unparsable}
ProviderCustomDocs == {NoFile, V2, V3}

InitProvider ==
    /\ InitWith({NoMd}, ProviderUserDocs, ProviderProjectDocs, ProviderCustomDocs)
    /\ kind = "agent"

\* the longest configuration text taken character by character
MaxTextLen == 5

TextChars == {"/", "*", "\"", "\\", "\n", "a"}

\* a string with an escaped quote and comment markers, a block comment, a
\* line comment and the line after it
TextAll ==
    <<"\"", "\\", "\"", "/", "/", "/", "*", "\"", "/", "*", "a", "\"", "*", "/",
      "/", "/", "a", "\"", "\n", "a">>

\* a string that ends after an escaped backslash, then a line comment
TextEscapedBackslash == <<"\"", "\\", "\\", "\"", "/", "/", "a", "\n", "a">>

\* markers that stand inside strings only
TextQuotedMarkers ==
    <<"\"", "/", "/", "\"", "a", "\"", "/", "*", "\\", "\"", "*", "/", "\"">>

\* configuration texts: every short text, and longer ones
Texts ==
    UNION {[1..n -> TextChars] : n \in 0..MaxTextLen}
    \cup {TextAll, TextEscapedBackslash, TextQuotedMarkers}

\* the text of a file
RawText(s) == [t |-> "text", s |-> s]

\* the user document holds a text that has not been read yet
InitText ==
    /\ kind = "agent"
    /\ customSet = FALSE
    /\ md = [sc \in Scopes |-> NoMd]
    /\ \E s \in Texts :
          json = [l \in Layers |-> IF l = UserPath THEN RawText(s) ELSE NoFile]
    /\ backup = [l \in Layers |-> NoFile]
    /\ prompts = EmptyMap
    /\ skill = NoSkills
    /\ calls = 0
    /\ proc = NoProcs
    /\ last = InitLast

\* skill directories found on disk: none, one without SKILL.md, one with it
SkillMd == MdFile(M(("name" :> Str(Foo)) @@ ("description" :> D)), <<"x">>)
SkillDirStates == {NoDir, SkillDir(NoFile, EmptyMap, {}), SkillDir(SkillMd, EmptyMap, {})}

\* the files and directories a path lookup can meet
InitPaths ==
    /\ kind \in Kinds
    /\ customSet \in BOOLEAN
    /\ md \in [Scopes -> MdDirStates]
    /\ json = [l \in Layers |-> NoFile]
    /\ backup = [l \in Layers |-> NoFile]
    /\ prompts = EmptyMap
    /\ \E s \in [SkillLocs -> SkillDirStates] :
          /\ s[<<"claude", "plural">>] = NoDir
          /\ skill = [NoSkills EXCEPT ![Foo] = s]
    /\ calls = 0
    /\ proc = NoProcs
    /\ last = InitLast

\* documents handed to write_config_at
WriteDocs == {Obj(EmptyMap), DocNoFoo("agent"), DocFoo("agent", E2)}

\* documents with nested objects, arrays, scalars and null at the same keys
U1 == Obj(M(("a" :> Obj(M(("a" :> A)))) @@ ("b" :> Arr(<<A>>)) @@ ("c" :> A)))
U2 == Obj(M(("a" :> A) @@ ("b" :> Obj(M(("a" :> A))))))
P1 == Obj(M(("b" :> Arr(<<B>>))))
P2 == Obj(M(("a" :> Obj(M(("b" :> Arr(<<B>>))))) @@ ("b" :> Obj(M(("b" :> B))))))
P3 == Obj(M(("a" :> Null)))
C1 == Obj(M(("a" :> B)))
C2 == Obj(M(("a" :> Obj(M(("a" :> Null))))))
C3 == Obj(M(("b" :> Obj(M(("a" :> Arr(<<B>>)))))))

StoreUserDocs == {NoFile, DocFoo("agent", E1), Null, U1, U2}
StoreProjectDocs == {NoFile, DocFoo("agent", E2), P1, P2, P3}
StoreCustomDocs == {NoFile, Null, C1, C2, C3}

\* the documents a direct use of the document store can meet
InitStore ==
    /\ kind = "agent"
    /\ customSet \in BOOLEAN
    /\ md = [sc \in Scopes |-> NoMd]
    /\ \E u \in StoreUserDocs, p \in StoreProjectDocs, c \in StoreCustomDocs :
          json = [l \in Layers |-> CASE l = UserPath -> u [] l = ProjectPath -> p
                                     [] OTHER -> c]
    /\ backup = [l \in Layers |-> NoFile]
    /\ prompts = EmptyMap
    /\ skill = NoSkills
    /\ calls = 0
    /\ proc = NoProcs
    /\ last = InitLast

\* the longest body text taken character by character
MaxBodyLen == 3

BodyChars == {" ", "\n", "x", "-"}

\* body texts: every short text, and texts holding a fence line
Bodies ==
    UNION {[1..n -> BodyChars] : n \in 0..MaxBodyLen}
    \cup {<<"x", "\n", "-", "-", "-", "\n", "x">>,
          <<"\n", "-", "-", "-", "\n", "x", " ">>,
          <<"-", "-", "-", "\n", "x", "\n", "-", "-", "-", "\n">>}

\* front-matter mappings handed to write_md_file
FrontMatters ==
    {EmptyMap,
     M(("description" :> D)),
     M(("description" :> D) @@ ("model" :> A)),
     M(("description" :> D) @@ ("model" :> Null)),
     M(("model" :> Null))}

\* nothing on disk
InitMd ==
    /\ kind = "agent"
    /\ customSet = FALSE
    /\ md = [sc \in Scopes |-> NoMd]
    /\ json = [l \in Layers |-> NoFile]
    /\ backup = [l \in Layers |-> NoFile]
    /\ prompts = EmptyMap
    /\ skill = NoSkills
    /\ calls = 0
    /\ proc = NoProcs
    /\ last = InitLast

\* the longest skill name taken character by character
MaxNameLen == 3

NameChars == {"a", "0", "-", "A"}

LongName(n) == [i \in 1..n |-> "a"]

\* names handed to validate_skill_name: every short one, and names at the
\* limit of the length
NameInputs ==
    UNION {[1..n -> NameChars] : n \in 0..MaxNameLen}
    \cup {LongName(MaxSkillNameLen), LongName(MaxSkillNameLen + 1),
          [LongName(MaxSkillNameLen) EXCEPT ![MaxSkillNameLen] = "-"]}

\* names handed to create_skill: the two that may have directories, a
\* name that starts with a hyphen and one that is too long
CreateNames == SkillNames \cup {<<"-", "a">>, LongName(MaxSkillNameLen + 1)}

FileC == <<"c">>
PathSDR == <<"s", "/", "d", "/", "r">>
PathSQ == <<"s", "/", "q">>

SupportingFile(path, content) == Obj(M(("path" :> Str(path)) @@ ("content" :> Str(content))))

\* create configurations: the plain one; one with a name, a scope and
\* supporting files; one without description; one whose description and
\* name are null
SkillConfigs ==
    {M(("description" :> D) @@ ("instructions" :> Str(<<"x">>))),
     M(("description" :> D) @@ ("name" :> Str(Bar)) @@ ("scope" :> Str(<<"u">>))
       @@ ("supportingFiles" :> Arr(<<SupportingFile(PathSDR, FileC),
                                      Obj(M(("path" :> Str(PathSQ))))>>))),
     M(("instructions" :> B)
       @@ ("supportingFiles" :> Arr(<<SupportingFile(PathSQ, FileC)>>))),
     M(("description" :> Null) @@ ("name" :> Null))}

\* relative paths handed to delete_skill_supporting_file: two files, a
\* directory, a path that is not there, and SKILL.md
SupportingPaths == {PathSDR, PathSQ, <<"s">>, <<"x">>, SkillMdName}

\* a skill directory with SKILL.md and the files s/d/r and s/q
SkillTree ==
    SkillDir(SkillMd,
             (Components(PathSDR) :> FileC) @@ (Components(PathSQ) :> FileC),
             {<<<<"s">>>>, <<<<"s">>, <<"d">>>>})

SkillTreeStates == {NoDir, SkillDir(SkillMd, EmptyMap, {}), SkillTree}

\* the skill directories found on disk when skills are handled
InitSkill ==
    /\ kind = "agent"
    /\ customSet = FALSE
    /\ md = [sc \in Scopes |-> NoMd]
    /\ json = [l \in Layers |-> NoFile]
    /\ backup = [l \in Layers |-> NoFile]
    /\ prompts = EmptyMap
    /\ \E foo \in [SkillLocs -> SkillTreeStates],
          bar \in {NoDir, SkillDir(SkillMd, EmptyMap, {})} :
          /\ foo[<<"claude", "plural">>] # SkillDir(SkillMd, EmptyMap, {})
          /\ foo[<<"user", "legacy">>] # SkillDir(SkillMd, EmptyMap, {})
          /\ skill = [NoSkills EXCEPT ![Foo] = foo, ![Bar][<<"user", "plural">>] = bar]
    /\ calls = 0
    /\ proc = NoProcs
    /\ last = InitLast

-----------------------------------------------------------------------------
(* Actions: one per handler *)

Apply(op, k, wd, scope, args, r) ==
    /\ calls < MaxCalls
    /\ calls' = calls + 1
    /\ md' = r.fs.md
    /\ json' = r.fs.json
    /\ backup' = r.fs.backup
    /\ prompts' = r.fs.prompts
    /\ skill' = r.fs.skill
    /\ last' = [op |-> op, k |-> k, wd |-> wd, scope |-> scope, args |-> args,
                ok |-> r.ok, error |-> r.error, result |-> NoValue, pre |-> FS]
    /\ UNCHANGED <<kind, customSet, proc>>

CreateAgent ==
    /\ kind = "agent"
    /\ \E config \in CreateConfigs("agent"), wd \in WorkDirs, scope \in RequestedScopes :
          Apply("create", "agent", wd, scope, config,
                create_agent(FS, "agent", Name, config, wd, scope))

CreateCommand ==
    /\ kind = "command"
    /\ \E config \in CreateConfigs("command"), wd \in WorkDirs, scope \in RequestedScopes :
          Apply("create", "command", wd, scope, config,
                create_agent(FS, "command", Name, config, wd, scope))

UpdateAgent ==
    /\ kind = "agent"
    /\ \E updates \in UpdatesSet("agent"), wd \in WorkDirs :
          Apply("update", "agent", wd, None, updates,
                update_agent(FS, "agent", Name, updates, wd))

UpdateCommand ==
    /\ kind = "command"
    /\ \E updates \in UpdatesSet("command"), wd \in WorkDirs :
          Apply("update", "command", wd, None, updates,
                update_agent(FS, "command", Name, updates, wd))

DeleteAgent ==
    /\ kind = "agent"
    /\ \E wd \in WorkDirs :
          Apply("delete", "agent", wd, None, EmptyMap,
                delete_agent(FS, "agent", Name, wd))

DeleteCommand ==
    /\ kind = "command"
    /\ \E wd \in WorkDirs :
          Apply("delete", "command", wd, None, EmptyMap,
                delete_agent(FS, "command", Name, wd))

\* a path lookup: reads the file system and returns a path
ResolveWith(k, wd, scope, args, result) ==
    /\ calls < MaxCalls
    /\ calls' = calls + 1
    /\ last' = [op |-> "resolve", k |-> k, wd |-> wd, scope |-> scope,
                args |-> args, ok |-> TRUE, error |-> None, result |-> result,
                pre |-> FS]
    /\ UNCHANGED <<kind, customSet, md, json, backup, prompts, skill, proc>>

Resolve(k, wd, scope, result) == ResolveWith(k, wd, scope, EmptyMap, result)

GetAgentPath ==
    /\ kind = "agent"
    /\ \/ Resolve("agent", "wd", "project", get_project_agent_path(FS))
       \/ Resolve("agent", None, "user", get_user_agent_path(FS))

GetCommandPath ==
    /\ kind = "command"
    /\ \/ Resolve("command", "wd", "project", get_project_agent_path(FS))
       \/ Resolve("command", None, "user", get_user_agent_path(FS))

GetSkillDir ==
    /\ calls < MaxCalls
    /\ \/ Resolve("skill_dir", "wd", "project", get_project_skill_dir(FS, Foo))
       \/ Resolve("skill_dir", None, "user", get_user_skill_dir(FS, Foo))

GetSkillPath ==
    /\ calls < MaxCalls
    /\ \/ Resolve("skill", "wd", "project", get_project_skill_path(FS, Foo))
       \/ Resolve("skill", None, "user", get_user_skill_path(FS, Foo))

GetJsonWriteTarget ==
    /\ calls < MaxCalls
    /\ \E wd \in WorkDirs, preferred_scope \in RequestedScopes :
          Resolve("write_target", wd, preferred_scope,
                  get_json_write_target(read_config_layers(FS, wd), preferred_scope))

NextPaths ==
    GetAgentPath \/ GetCommandPath \/ GetSkillDir \/ GetSkillPath \/ GetJsonWriteTarget
WriteConfigAt ==
    /\ calls < MaxCalls
    /\ \E config \in WriteDocs, config_file \in Layers :
          Apply("write_config_at", None, None, None,
                [config |-> config, config_file |-> config_file],
                [fs |-> write_config_at(FS, config, config_file),
                 ok |-> TRUE, error |-> None])

ReadConfig ==
    /\ calls < MaxCalls
    /\ \E wd \in WorkDirs : Resolve("read_config", wd, None, read_config(FS, wd))

\* the text write_md_file produces, read back by parse_md_file
WriteThenParseMd ==
    /\ calls < MaxCalls
    /\ \E frontmatter \in FrontMatters, body \in Bodies :
          ResolveWith("md_round_trip", None, None,
                      [frontmatter |-> frontmatter, body |-> body],
                      parse_md_content(md_content(frontmatter, body)))

\* parse_md_file on a text that was written by hand
ParseMd ==
    /\ calls < MaxCalls
    /\ \E content \in Bodies :
          ResolveWith("parse_md", None, None, [content |-> content],
                      parse_md_content(content))

CreateSkill ==
    /\ calls < MaxCalls
    /\ \E skill_name \in CreateNames, config \in SkillConfigs, wd \in WorkDirs,
          scope \in {None, "project"} :
          Apply("create_skill", "skill", wd, scope,
                [skill_name |-> skill_name, config |-> config],
                create_skill(FS, skill_name, config, wd, scope))

DeleteSkill ==
    /\ calls < MaxCalls
    /\ \E skill_name \in SkillNames, wd \in WorkDirs :
          Apply("delete_skill", "skill", wd, None, [skill_name |-> skill_name],
                delete_skill(FS, skill_name, wd))

DeleteSkillSupportingFile ==
    /\ calls < MaxCalls
    /\ \E loc \in SkillLocs, relative_path \in SupportingPaths :
          Apply("delete_skill_supporting_file", "skill", None, None,
                [skill_name |-> Foo, loc |-> loc, relative_path |-> relative_path],
                delete_skill_supporting_file(FS, Foo, loc, relative_path))

DiscoverSkills ==
    /\ calls < MaxCalls
    /\ \E wd \in WorkDirs :
          ResolveWith("discover_skills", wd, None, EmptyMap, discover_skills(FS, wd))

GetSkillScope ==
    /\ calls < MaxCalls
    /\ \E skill_name \in SkillNames, wd \in WorkDirs :
          ResolveWith("skill_scope", wd, None, [skill_name |-> skill_name],
                      get_skill_scope(FS, skill_name, wd))

ValidateSkillName ==
    /\ calls < MaxCalls
    /\ \E skill_name \in NameInputs :
          ResolveWith("validate_skill_name", None, None, [skill_name |-> skill_name],
                      validate_skill_name(skill_name))

NextSkill ==
    CreateSkill \/ DeleteSkill \/ DeleteSkillSupportingFile \/ DiscoverSkills
    \/ GetSkillScope
\* a handler that returns a value and may write
ApplyWithResult(op, wd, scope, args, r) ==
    /\ calls' = calls + 1
    /\ md' = r.fs.md
    /\ json' = r.fs.json
    /\ backup' = r.fs.backup
    /\ prompts' = r.fs.prompts
    /\ skill' = r.fs.skill
    /\ last' = [op |-> op, k |-> None, wd |-> wd, scope |-> scope, args |-> args,
                ok |-> r.ok, error |-> r.error, result |-> r.result, pre |-> FS]
    /\ UNCHANGED <<kind, customSet, proc>>

RemoveProviderConfig ==
    /\ calls < MaxCalls
    /\ \E provider_id \in ProviderIds, wd \in WorkDirs, scope \in ProviderScopes :
          ApplyWithResult("remove_provider_config", wd, scope,
                          [provider_id |-> provider_id],
                          remove_provider_config(FS, provider_id, wd, scope))

\* strip_json_comments on the text of the user document, as read_config_file
\* applies it
StripJsonComments ==
    /\ calls < MaxCalls
    /\ json[UserPath].t = "text"
    /\ ResolveWith("strip_json_comments", None, None,
                   [content |-> json[UserPath].s],
                   Str(strip_json_comments(json[UserPath].s)))

NextText == StripJsonComments
NextProvider == RemoveProviderConfig
NextSkillName == ValidateSkillName \/ CreateSkill
NextMd == WriteThenParseMd \/ ParseMd
NextStore == WriteConfigAt \/ ReadConfig
NextCreate == CreateAgent \/ CreateCommand
NextUpdate == UpdateAgent \/ UpdateCommand
NextDelete == DeleteAgent \/ DeleteCommand
Next == NextCreate \/ NextUpdate \/ NextDelete

SpecCreate == Init /\ [][NextCreate]_vars
SpecUpdate == InitUpdate /\ [][NextUpdate]_vars
SpecDelete == Init /\ [][NextDelete]_vars
SpecPaths == InitPaths /\ [][NextPaths]_vars
SpecStore == InitStore /\ [][NextStore]_vars
SpecMd == InitMd /\ [][NextMd]_vars
SpecSkill == InitSkill /\ [][NextSkill]_vars
SpecSkillName == InitMd /\ [][NextSkillName]_vars
SpecParse == InitParse /\ [][Next]_vars
SpecProvider == InitProvider /\ [][NextProvider]_vars
SpecText == InitText /\ [][NextText]_vars
Spec == InitSingleSource /\ [][Next]_vars

-----------------------------------------------------------------------------
(* Calls in flight.  update_agent / update_command and delete_agent /      *)
(* delete_command taken one file-system statement at a time, so that calls *)
(* interleave and a write can fail.  A step is one awaited operation with  *)
(* the computation up to the next one; the three documents are read in one *)
(* step (read_config_layers).                                              *)

\* a write that leaves an existing document in place under the new one
fs_write_Merge(current, content) ==
    IF current = NoFile THEN content ELSE merge_values(current, content)

\* std::fs::write: the file holds the new content, whatever it held
fs_write(current, content) == content

\* a backup made of the document that is being written
BackupContent_NewDocument(doc, config) == config

\* fs::copy(config_file, backup_path): the content the backup receives when
\* the file holds doc and the call is about to write config
BackupContent(doc, config) == doc

\* the write phase of update_agent as a list of writes, the JSON document
\* ahead of the Markdown file
update_agent_writes_JsonFirst(c) ==
    SelectSeq(<<c.json_write, c.md_write>>, LAMBDA w : w # NoWrite)

\* the write phase of update_agent as a list of writes, in program order
update_agent_writes(c) ==
    SelectSeq(<<c.md_write, c.json_write>>, LAMBDA w : w # NoWrite)

\* steps 3 and 4 of delete_agent / delete_command on the documents read:
\* the write decided on, and the error when nothing was there to delete
delete_agent_writes(fs, k, name, wd, deleted) ==
    LET w == SectionRemoval(fs, k, name, wd)
    IN  IF w # NoWrite THEN [todo |-> <<w>>, error |-> None]
        ELSE IF deleted THEN [todo |-> << >>, error |-> None]
        ELSE IF k = "agent"
        THEN [todo |-> <<DisableEntry(fs, name, wd)>>, error |-> None]
        ELSE [todo |-> << >>, error |-> "NotFound"]

InFlight(q) == proc[q].pc \notin {"idle", "returned"}

\* proc[p] becomes r
Becomes(p, r) ==
    /\ proc' = [proc EXCEPT ![p] = r]
    /\ UNCHANGED <<kind, customSet, prompts, skill, calls, last>>

\* the call p starts as r; the calls in flight are no longer alone
Begins(p, r) ==
    /\ proc[p].pc = "idle"
    /\ \A q \in Procs : q < p => proc[q].pc # "idle"
    /\ proc' = [q \in Procs |->
                  IF q = p
                  THEN [r EXCEPT !.pre = FS,
                                 !.began = 1 + Cardinality({x \in Procs : proc[x].pc # "idle"}),
                                 !.alone = \A x \in Procs : ~InFlight(x)]
                  ELSE IF InFlight(q) THEN [proc[q] EXCEPT !.alone = FALSE]
                  ELSE proc[q]]
    /\ UNCHANGED <<kind, customSet, md, json, backup, prompts, skill, calls, last>>

Returns(r, error, failed) ==
    [r EXCEPT !.pc = "returned", !.ok = (error = None), !.error = error,
              !.failed = failed, !.todo = << >>]

\* the call goes on with the writes left, or returns Ok
Advance(r, todo) ==
    IF todo = << >> THEN Returns(r, None, None)
    ELSE [r EXCEPT !.pc = "write", !.todo = todo]

\* updates of the calls in flight: a field of the JSON section, the content
\* field, both, and a removal
StepUpdates(k) ==
    {M(("model" :> B)), M((ContentField(k) :> B)),
     M(("model" :> B) @@ (ContentField(k) :> B)), M(("model" :> Null))}

\* update_agent 1014-1018: the Markdown path and whether it exists
UpdateBegin(p) ==
    /\ proc[p].pc = "idle"
    /\ \E updates \in StepUpdates(kind), wd \in WorkDirs :
          Begins(p, [IdleProc EXCEPT !.pc = "layers", !.op = "update", !.wd = wd,
                                     !.updates = updates, !.view = FS])

\* update_agent 1021: read_config_layers
UpdateReadLayers(p) ==
    /\ proc[p].pc = "layers"
    /\ proc[p].op = "update"
    /\ Becomes(p, [proc[p] EXCEPT !.pc = "parse", !.view.json = json])
    /\ UNCHANGED <<md, json, backup>>

\* the Markdown path the call found at its start
UpdateMdPath(p) == get_agent_write_path(proc[p].view, proc[p].wd, None).path

\* update_agent 1057-1152: parse_md_file when the file was there, the field
\* loop and the decision on the writes
UpdateParseMd(p) ==
    /\ proc[p].pc = "parse"
    /\ exists_md(proc[p].view, UpdateMdPath(p)) => exists_md(FS, UpdateMdPath(p))
    /\ LET path == UpdateMdPath(p)
           view == IF exists_md(proc[p].view, path)
                   THEN [proc[p].view EXCEPT !.md[path[1]][path[2]] = md[path[1]][path[2]]]
                   ELSE proc[p].view
           c == update_agent_prepare(view, kind, Name, proc[p].updates, proc[p].wd)
           r == [proc[p] EXCEPT !.view = view, !.c = c]
       IN  Becomes(p, IF c.err THEN Returns(r, "InvalidReference", "reference")
                      ELSE Advance(r, update_agent_writes(c)))
    /\ UNCHANGED <<md, json, backup>>

\* parse_md_file on a file that is gone since the call looked for it
UpdateParseMdNotFound(p) ==
    /\ proc[p].pc = "parse"
    /\ exists_md(proc[p].view, UpdateMdPath(p))
    /\ ~exists_md(FS, UpdateMdPath(p))
    /\ Becomes(p, Returns(proc[p], "FileNotFound", "parse"))
    /\ UNCHANGED <<md, json, backup>>

\* delete_agent 1198-1203: the project file and whether it exists
DeleteBegin(p) ==
    /\ proc[p].pc = "idle"
    /\ \E wd \in WorkDirs :
          Begins(p, [IdleProc EXCEPT
                        !.pc = "rm_project", !.op = "delete", !.wd = wd,
                        !.seen = IF wd # None /\ exists_md(FS, get_project_agent_path(FS))
                                 THEN get_project_agent_path(FS) ELSE NoPath])

\* the file system without the file the call saw
RemoveSeen(p) ==
    IF proc[p].seen # NoPath THEN remove_file(FS, proc[p].seen) ELSE FS

\* delete_agent 1204-1215: remove the project file, look for the user file
DeleteRemoveProjectMd(p) ==
    /\ proc[p].pc = "rm_project"
    /\ proc[p].seen # NoPath => exists_md(FS, proc[p].seen)
    /\ md' = RemoveSeen(p).md
    /\ Becomes(p, [proc[p] EXCEPT
                      !.pc = "rm_user",
                      !.deleted = proc[p].seen # NoPath,
                      !.seen = IF exists_md(RemoveSeen(p), get_user_agent_path(RemoveSeen(p)))
                               THEN get_user_agent_path(RemoveSeen(p)) ELSE NoPath])
    /\ UNCHANGED <<json, backup>>

\* delete_agent 1216-1219: remove the user file
DeleteRemoveUserMd(p) ==
    /\ proc[p].pc = "rm_user"
    /\ proc[p].seen # NoPath => exists_md(FS, proc[p].seen)
    /\ md' = RemoveSeen(p).md
    /\ Becomes(p, [proc[p] EXCEPT !.pc = "layers", !.seen = NoPath,
                                  !.deleted = @ \/ proc[p].seen # NoPath])
    /\ UNCHANGED <<json, backup>>

\* fs::remove_file on a file that is gone since the call looked for it
DeleteRemoveMdNotFound(p) ==
    /\ proc[p].pc \in {"rm_project", "rm_user"}
    /\ proc[p].seen # NoPath
    /\ ~exists_md(FS, proc[p].seen)
    /\ Becomes(p, Returns(proc[p], "FileNotFound", "remove"))
    /\ UNCHANGED <<md, json, backup>>

\* delete_agent 1222-1262: read_config_layers and the decision on the write
DeleteReadLayers(p) ==
    /\ proc[p].pc = "layers"
    /\ proc[p].op = "delete"
    /\ LET d == delete_agent_writes(FS, kind, Name, proc[p].wd, proc[p].deleted)
           r == [proc[p] EXCEPT !.view = FS]
       IN  Becomes(p, IF d.error # None THEN Returns(r, d.error, "lookup")
                      ELSE Advance(r, d.todo))
    /\ UNCHANGED <<md, json, backup>>

\* the write the call is at
NextWrite(p) == Head(proc[p].todo)

\* write_md_file
WriteMdFile(p) ==
    /\ proc[p].pc = "write"
    /\ NextWrite(p).t = "md"
    /\ md' = write_md_file(FS, NextWrite(p).path, NextWrite(p).frontmatter,
                           NextWrite(p).body).md
    /\ Becomes(p, Advance([proc[p] EXCEPT !.written = @ \cup {"md"}],
                          Tail(proc[p].todo)))
    /\ UNCHANGED <<json, backup>>

WriteMdFileFails(p) ==
    /\ proc[p].pc = "write"
    /\ NextWrite(p).t = "md"
    /\ Becomes(p, Returns(proc[p], "WriteFailed", "md"))
    /\ UNCHANGED <<md, json, backup>>

\* write_config_at 776-785: the backup copy of an existing file
BackupConfig(p) ==
    /\ proc[p].pc = "write"
    /\ NextWrite(p).t = "json"
    /\ backup' = IF json[NextWrite(p).path] # NoFile
                 THEN [backup EXCEPT ![NextWrite(p).path] =
                          BackupContent(json[NextWrite(p).path], NextWrite(p).config)]
                 ELSE backup
    /\ Becomes(p, [proc[p] EXCEPT !.pc = "copied", !.json_write = NextWrite(p),
                                  !.copied = json[NextWrite(p).path]])
    /\ UNCHANGED <<md, json>>

BackupConfigFails(p) ==
    /\ proc[p].pc = "write"
    /\ NextWrite(p).t = "json"
    /\ json[NextWrite(p).path] # NoFile
    /\ Becomes(p, Returns(proc[p], "WriteFailed", "backup"))
    /\ UNCHANGED <<md, json, backup>>

\* write_config_at 787-794: the write of the document
WriteConfig(p) ==
    /\ proc[p].pc = "copied"
    /\ json' = [json EXCEPT ![NextWrite(p).path] = fs_write(@, NextWrite(p).config)]
    /\ Becomes(p, Advance([proc[p] EXCEPT
                              !.written = @ \cup {"json"},
                              !.seq = 1 + Cardinality({q \in Procs : proc[q].seq > 0})],
                          Tail(proc[p].todo)))
    /\ UNCHANGED <<md, backup>>

WriteConfigFails(p) ==
    /\ proc[p].pc = "copied"
    /\ Becomes(p, Returns(proc[p], "WriteFailed", "json"))
    /\ UNCHANGED <<md, json, backup>>

NextSteps ==
    \E p \in Procs :
        \/ UpdateBegin(p) \/ UpdateReadLayers(p) \/ UpdateParseMd(p)
        \/ UpdateParseMdNotFound(p)
        \/ DeleteBegin(p) \/ DeleteRemoveProjectMd(p) \/ DeleteRemoveUserMd(p)
        \/ DeleteRemoveMdNotFound(p) \/ DeleteReadLayers(p)
        \/ WriteMdFile(p) \/ WriteMdFileFails(p)
        \/ BackupConfig(p) \/ BackupConfigFails(p)
        \/ WriteConfig(p) \/ WriteConfigFails(p)

\* the artifact in a Markdown file or not, in the user and in the project
\* document or not; no file reference
StepMdStates == {NoMd, [NoMd EXCEPT !["plural"] = Md1]}
StepDocs(k) == {NoFile, DocFoo(k, E1)}

InitSteps ==
    /\ InitWith(StepMdStates, StepDocs(kind), StepDocs(kind), {NoFile})
    /\ ~customSet

SpecSteps == InitSteps /\ [][NextSteps]_vars

-----------------------------------------------------------------------------
(* Vocabulary of the properties: the state before the last call (Pre), the *)
(* state after it (FS), and descriptions of a state that do not go through *)
(* the resolver's own lookups.                                             *)

Pre == last.pre

IsCall(op) == last.op = op

MdPaths == Scopes \X Dirs
MdAt(fs, p) == fs.md[p[1]][p[2]]

\* the layers a call with working directory wd loads
Configured(fs, wd, l) ==
    \/ l = UserPath
    \/ l = ProjectPath /\ wd # None
    \/ l = CustomPath /\ fs.custom

\* the document of layer l has an object under sk with a member name
Defines(fs, l, sk, name) ==
    /\ fs.json[l] # NoFile
    /\ fs.json[l].t = "obj"
    /\ sk \in DOMAIN fs.json[l].m
    /\ fs.json[l].m[sk].t = "obj"
    /\ name \in DOMAIN fs.json[l].m[sk].m

Precedence == <<CustomPath, ProjectPath, UserPath>>

\* positions in Precedence of the layers that a call with wd sees define name
Definers(fs, wd, sk, name) ==
    {i \in 1..3 : Configured(fs, wd, Precedence[i]) /\ Defines(fs, Precedence[i], sk, name)}

FirstDefiner(fs, wd, sk, name) ==
    Precedence[CHOOSE i \in Definers(fs, wd, sk, name) :
                   \A j \in Definers(fs, wd, sk, name) : i <= j]

EntryOf(fs, l, sk, name) == fs.json[l].m[sk].m[name]

\* the Markdown file a call with wd takes as the artifact's source: project
\* before user, plural before legacy; NoPath when there is none
MdSource(fs, wd) ==
    IF wd # None /\ MdAt(fs, <<"project", "plural">>) # NoFile THEN <<"project", "plural">>
    ELSE IF wd # None /\ MdAt(fs, <<"project", "legacy">>) # NoFile THEN <<"project", "legacy">>
    ELSE IF MdAt(fs, <<"user", "plural">>) # NoFile THEN <<"user", "plural">>
    ELSE IF MdAt(fs, <<"user", "legacy">>) # NoFile THEN <<"user", "legacy">>
    ELSE NoPath

\* the fields of the artifact's JSON section as a call with wd sees it
SectionFields(fs, wd, sk, name) ==
    IF Definers(fs, wd, sk, name) = {} THEN {}
    ELSE LET e == EntryOf(fs, FirstDefiner(fs, wd, sk, name), sk, name)
         IN  IF e.t = "obj" THEN DOMAIN e.m ELSE {}

-----------------------------------------------------------------------------
(* C1 *)

\* C1: get_json_entry_source returns the entry of the first layer, in the
\* order custom, project, user, whose section has a member called name, with
\* that layer's path and value; when no layer defines it the result has
\* exists = FALSE, no path and no section.
C1_FindPrecedence ==
    \A wd \in WorkDirs :
        LET r == get_json_entry_source(read_config_layers(FS, wd), SectionKey(kind), Name)
        IN  IF Definers(FS, wd, SectionKey(kind), Name) = {}
            THEN r.exists = FALSE /\ r.path = None /\ r.section = NoValue
            ELSE LET l == FirstDefiner(FS, wd, SectionKey(kind), Name)
                 IN  /\ r.exists
                     /\ r.path = l
                     /\ r.section = EntryOf(FS, l, SectionKey(kind), Name)

\* a delete removed the custom definition and left the project and the user
\* definitions, which differ: the lookup now answers with the project entry
C1_Witness ==
    /\ IsCall("delete")
    /\ last.wd # None
    /\ Definers(Pre, last.wd, SectionKey(kind), Name) = {1, 2, 3}
    /\ Definers(FS, last.wd, SectionKey(kind), Name) = {2, 3}
    /\ EntryOf(FS, ProjectPath, SectionKey(kind), Name)
         # EntryOf(FS, UserPath, SectionKey(kind), Name)
    /\ get_json_entry_source(read_config_layers(FS, last.wd), SectionKey(kind), Name).path
         = ProjectPath

-----------------------------------------------------------------------------
(* C2 *)

\* the front-matter and body a reader gets from the file at p, empty when
\* there is no file
ReadMd(fs, p) ==
    IF MdAt(fs, p) = NoFile THEN [frontmatter |-> EmptyMap, body |-> << >>]
    ELSE [frontmatter |-> MdAt(fs, p).fm, body |-> Trim(MdAt(fs, p).body)]

SameAt(m0, m1, key) ==
    /\ key \in DOMAIN m0 <=> key \in DOMAIN m1
    /\ key \in DOMAIN m0 => m0[key] = m1[key]

\* a key outside fields is in m1 only as it was in m0, and a key of m0
\* outside fields whose value is not null is in m1 unchanged
SameNonNullAt(m0, m1, key) ==
    /\ key \in DOMAIN m1 => key \in DOMAIN m0 /\ m0[key] = m1[key]
    /\ (key \in DOMAIN m0 /\ m0[key] # Null) => key \in DOMAIN m1

Keys(m0, m1) == (DOMAIN m0) \cup (DOMAIN m1)

AsMap(v) == IF v.t = "obj" THEN v.m ELSE EmptyMap
Member(m, key) == IF key \in DOMAIN m THEN m[key] ELSE NoValue

\* documents d0 and d1 differ at most in the fields named by fields of the
\* section sk.name
DocFrame(d0, d1, sk, name, fields) ==
    \/ d0 = d1
    \/ /\ d0 # NoFile /\ d1 # NoFile
       /\ d0.t = "obj" /\ d1.t = "obj"
       /\ \A key \in Keys(d0.m, d1.m) \ {sk} : SameAt(d0.m, d1.m, key)
       /\ sk \in DOMAIN d0.m /\ sk \in DOMAIN d1.m
       /\ d0.m[sk].t = "obj" /\ d1.m[sk].t = "obj"
       /\ \A n \in Keys(d0.m[sk].m, d1.m[sk].m) \ {name} :
              SameAt(d0.m[sk].m, d1.m[sk].m, n)
       /\ name \in DOMAIN d0.m[sk].m /\ name \in DOMAIN d1.m[sk].m
       /\ d0.m[sk].m[name].t = "obj" /\ d1.m[sk].m[name].t = "obj"
       /\ \A f \in Keys(d0.m[sk].m[name].m, d1.m[sk].m[name].m) \ fields :
              SameAt(d0.m[sk].m[name].m, d1.m[sk].m[name].m, f)

\* the layer whose document an update may write: the one that holds the
\* artifact's section
OwningLayer(fs, wd, sk, name) ==
    IF Definers(fs, wd, sk, name) = {} THEN None ELSE FirstDefiner(fs, wd, sk, name)

\* what an update leaves alone in the JSON documents
UpdateJsonFrame ==
    \A l \in Layers :
        IF l = OwningLayer(Pre, last.wd, SectionKey(last.k), Name)
        THEN DocFrame(Pre.json[l], json[l], SectionKey(last.k), Name, DOMAIN last.args)
        ELSE json[l] = Pre.json[l]

\* what an update leaves alone in the Markdown bodies
UpdateBodyFrame ==
    \A p \in MdPaths :
        ContentField(last.k) \notin DOMAIN last.args
            => ReadMd(FS, p).body = ReadMd(Pre, p).body

\* C2 as stated: an update changes only what the updates map names; every
\* front-matter key not in updates, the body when the content field is not
\* in updates, every field of the JSON section not in updates, every other
\* section and top-level key of the written document, and the documents of
\* all other layers are as before.
C2_UpdateFrameAllKeys ==
    IsCall("update") =>
        /\ \A p \in MdPaths :
               \A key \in Keys(ReadMd(Pre, p).frontmatter, ReadMd(FS, p).frontmatter)
                          \ DOMAIN last.args :
                   SameAt(ReadMd(Pre, p).frontmatter, ReadMd(FS, p).frontmatter, key)
        /\ UpdateBodyFrame
        /\ UpdateJsonFrame

\* C2 as amended: the same, for the front-matter keys whose value is not
\* null; a null-valued front-matter key that is not in updates is dropped
\* when the call rewrites the file and is never given another value.
C2_UpdateFrame ==
    IsCall("update") =>
        /\ \A p \in MdPaths :
               \A key \in Keys(ReadMd(Pre, p).frontmatter, ReadMd(FS, p).frontmatter)
                          \ DOMAIN last.args :
                   SameNonNullAt(ReadMd(Pre, p).frontmatter, ReadMd(FS, p).frontmatter, key)
        /\ UpdateBodyFrame
        /\ UpdateJsonFrame

\* an update that rewrote a Markdown file holding a key it does not name and
\* wrote a document holding a field, another artifact and other keys it does
\* not name
C2_Witness ==
    /\ IsCall("update")
    /\ last.ok
    /\ \E p \in MdPaths :
          /\ MdAt(Pre, p) # NoFile
          /\ MdAt(FS, p) # MdAt(Pre, p)
          /\ \E key \in DOMAIN MdAt(Pre, p).fm :
                key \notin DOMAIN last.args /\ MdAt(Pre, p).fm[key] # Null
    /\ \E l \in Layers :
          /\ json[l] # Pre.json[l]
          /\ Pre.json[l] # NoFile
          /\ "theme" \in DOMAIN Pre.json[l].m
          /\ \E f \in DOMAIN EntryOf(Pre, l, SectionKey(last.k), Name).m :
                f \notin DOMAIN last.args

-----------------------------------------------------------------------------
(* C3 *)

\* the call named exactly one field, ordinary and not null
OneOrdinaryField(f) ==
    /\ DOMAIN last.args = {f}
    /\ f # ContentField(last.k)
    /\ last.args[f] # Null

InNoFrontMatter(fs, f) ==
    \A p \in MdPaths : MdAt(fs, p) # NoFile => f \notin DOMAIN MdAt(fs, p).fm

\* C3: an update with one non-null ordinary field that is in the artifact's
\* JSON section and in no Markdown front-matter sets the field in the layer
\* that owns the section and creates or modifies no Markdown file, with or
\* without a Markdown source.
C3_JsonFieldStaysInJson ==
    \A f \in UpdateFieldNames(kind) :
        ( /\ IsCall("update")
          /\ OneOrdinaryField(f)
          /\ f \in SectionFields(Pre, last.wd, SectionKey(last.k), Name)
          /\ InNoFrontMatter(Pre, f) )
        => /\ last.ok
           /\ md = Pre.md
           /\ LET l == FirstDefiner(Pre, last.wd, SectionKey(last.k), Name)
              IN  /\ Defines(FS, l, SectionKey(last.k), Name)
                  /\ EntryOf(FS, l, SectionKey(last.k), Name).t = "obj"
                  /\ Member(EntryOf(FS, l, SectionKey(last.k), Name).m, f) = last.args[f]

\* the field was set in the section while a Markdown source without the
\* field was there
C3_Witness ==
    /\ IsCall("update")
    /\ OneOrdinaryField("model")
    /\ "model" \in SectionFields(Pre, last.wd, SectionKey(last.k), Name)
    /\ InNoFrontMatter(Pre, "model")
    /\ MdSource(Pre, last.wd) # NoPath
    /\ json # Pre.json

-----------------------------------------------------------------------------
(* C4 *)

\* C4: for an artifact with a Markdown source whose JSON section has no
\* fields before the call, an update writes no JSON document and creates no
\* JSON section, whatever the updates map.
C4_MarkdownOnlyNoJsonWrite ==
    ( /\ IsCall("update")
      /\ MdSource(Pre, last.wd) # NoPath
      /\ SectionFields(Pre, last.wd, SectionKey(last.k), Name) = {} )
    => /\ json = Pre.json
       /\ backup = Pre.backup

\* such an update with a null value and a new value, on an artifact whose
\* section is absent from every layer
C4_Witness ==
    /\ IsCall("update")
    /\ MdSource(Pre, last.wd) # NoPath
    /\ Definers(Pre, last.wd, SectionKey(last.k), Name) = {}
    /\ \E f, g \in DOMAIN last.args : last.args[f] = Null /\ last.args[g] # Null
    /\ md # Pre.md

-----------------------------------------------------------------------------
(* C5, C6 *)

\* the name is taken, as a call with working directory wd can see
NameTaken(fs, wd, sk) ==
    \/ wd # None /\ \E d \in Dirs : MdAt(fs, <<"project", d>>) # NoFile
    \/ \E d \in Dirs : MdAt(fs, <<"user", d>>) # NoFile
    \/ \E l \in Layers : Configured(fs, wd, l) /\ Defines(fs, l, sk, Name)

\* C5: create fails when the name exists as a project Markdown file (plural
\* or legacy, with a working directory), as a user Markdown file (plural or
\* legacy) or as a member of the kind's section in the custom, project or
\* user layer; the failed call creates and modifies nothing.
C5_CreateNeverOverwrites ==
    (IsCall("create") /\ NameTaken(Pre, last.wd, SectionKey(last.k)))
    => /\ ~last.ok
       /\ last.error = "AlreadyExists"
       /\ FS = Pre

\* a create refused because of a legacy user file alone
C5_Witness ==
    /\ IsCall("create")
    /\ ~last.ok
    /\ MdAt(Pre, <<"user", "legacy">>) # NoFile
    /\ MdAt(Pre, <<"user", "plural">>) = NoFile
    /\ \A d \in Dirs : MdAt(Pre, <<"project", d>>) = NoFile
    /\ \A l \in Layers : ~Defines(Pre, l, SectionKey(last.k), Name)

\* the path a successful create writes
CreateTarget == IF last.scope = "project" /\ last.wd # None
                THEN <<"project", "plural">> ELSE <<"user", "plural">>

\* C6: a successful create writes exactly one Markdown file, at the project
\* path when the scope is Project and a working directory is supplied and at
\* the user path otherwise; the body is the string value of the content
\* field, the front-matter is config without the content field, the scope
\* pseudo-field and the null-valued keys; no JSON document is written.
C6_CreateWritesOneFile ==
    (IsCall("create") /\ last.ok)
    => /\ \A p \in MdPaths \ {CreateTarget} : MdAt(FS, p) = MdAt(Pre, p)
       /\ MdAt(Pre, CreateTarget) = NoFile
       /\ MdAt(FS, CreateTarget) # NoFile
       /\ LET f == MdAt(FS, CreateTarget)
              c == ContentField(last.k)
          IN  /\ f.body = (IF c \in DOMAIN last.args /\ last.args[c].t = "str"
                           THEN last.args[c].s ELSE << >>)
              /\ DOMAIN f.fm = {key \in DOMAIN last.args :
                                  key \notin {c, "scope"} /\ last.args[key] # Null}
              /\ \A key \in DOMAIN f.fm : f.fm[key] = last.args[key]
       /\ json = Pre.json
       /\ backup = Pre.backup
       /\ prompts = Pre.prompts

\* a project-scope create from a configuration with a null-valued key
C6_Witness ==
    /\ IsCall("create")
    /\ last.ok
    /\ last.scope = "project"
    /\ last.wd # None
    /\ \E key \in DOMAIN last.args : last.args[key] = Null
    /\ MdAt(FS, <<"project", "plural">>) # NoFile

-----------------------------------------------------------------------------
(* C7, C8, C9 *)

\* the name has no Markdown file and no section in any layer
DefinedNowhere(fs, sk) ==
    /\ \A p \in MdPaths : MdAt(fs, p) = NoFile
    /\ \A l \in Layers : ~Defines(fs, l, sk, Name)

\* C7: delete_command on a name with no project Markdown file, no user
\* Markdown file and no section in any layer returns a not-found error and
\* leaves every Markdown file, JSON document and backup file unchanged.
C7_DeleteCommandNotFound ==
    (IsCall("delete") /\ last.k = "command" /\ DefinedNowhere(Pre, "command"))
    => /\ ~last.ok
       /\ last.error = "NotFound"
       /\ FS = Pre

\* such a delete_command, with documents that hold other content
C7_Witness ==
    /\ IsCall("delete")
    /\ last.k = "command"
    /\ DefinedNowhere(Pre, "command")
    /\ \E l \in Layers : Pre.json[l] # NoFile /\ Pre.json[l].t = "obj"
                         /\ "command" \in DOMAIN Pre.json[l].m
    /\ ~last.ok

\* the layer a call with wd writes a new section to
WriteTarget(fs, wd) ==
    IF fs.custom THEN CustomPath ELSE IF wd # None THEN ProjectPath ELSE UserPath

DisableSection == Obj([x \in {"disable"} |-> Bool(TRUE)])

\* C8: delete_agent on a name with no Markdown file and no section in any
\* layer succeeds and sets agent.<name> to exactly {disable: true} in the
\* layer of the write target (custom if configured, else project with a
\* working directory, else user); the other keys of that document and the
\* other agents of its section are kept and the other layers are not written.
C8_DeleteAgentDisablesBuiltin ==
    (IsCall("delete") /\ last.k = "agent" /\ DefinedNowhere(Pre, "agent"))
    => LET t == WriteTarget(Pre, last.wd)
           d0 == IF Pre.json[t] = NoFile THEN EmptyMap ELSE AsMap(Pre.json[t])
           s0 == IF "agent" \in DOMAIN d0 THEN AsMap(d0["agent"]) ELSE EmptyMap
       IN  /\ last.ok
           /\ md = Pre.md
           /\ Defines(FS, t, "agent", Name)
           /\ EntryOf(FS, t, "agent", Name) = DisableSection
           /\ DOMAIN json[t].m = (DOMAIN d0) \cup {"agent"}
           /\ \A key \in (DOMAIN d0) \ {"agent"} : json[t].m[key] = d0[key]
           /\ DOMAIN json[t].m["agent"].m = (DOMAIN s0) \cup {Name}
           /\ \A n \in (DOMAIN s0) \ {Name} : json[t].m["agent"].m[n] = s0[n]
           /\ \A l \in Layers \ {t} : json[l] = Pre.json[l] /\ backup[l] = Pre.backup[l]

\* the built-in was disabled in the project layer, whose document held a
\* theme and another agent, while a user document was there
C8_Witness ==
    /\ IsCall("delete")
    /\ last.k = "agent"
    /\ DefinedNowhere(Pre, "agent")
    /\ WriteTarget(Pre, last.wd) = ProjectPath
    /\ Pre.json[ProjectPath] # NoFile
    /\ Pre.json[ProjectPath].t = "obj"
    /\ "theme" \in DOMAIN Pre.json[ProjectPath].m
    /\ Pre.json[UserPath] # NoFile
    /\ EntryOf(FS, ProjectPath, "agent", Name) = DisableSection
    /\ "other" \in DOMAIN json[ProjectPath].m["agent"].m

\* C9: delete removes the artifact's section from the highest-precedence
\* layer that defines it and from no other: the sections of lower layers
\* and their documents are as before, and the lookup still finds the name in
\* the next lower layer that defines it.
C9_DeleteTopLayerOnly ==
    (IsCall("delete") /\ Definers(Pre, last.wd, SectionKey(last.k), Name) # {})
    => LET sk == SectionKey(last.k)
           top == FirstDefiner(Pre, last.wd, sk, Name)
           lower == {i \in Definers(Pre, last.wd, sk, Name) : Precedence[i] # top}
           r == get_json_entry_source(read_config_layers(FS, last.wd), sk, Name)
       IN  /\ last.ok
           /\ ~Defines(FS, top, sk, Name)
           /\ \A l \in Layers \ {top} : json[l] = Pre.json[l] /\ backup[l] = Pre.backup[l]
           /\ lower # {} =>
                /\ r.exists
                /\ r.path = Precedence[CHOOSE i \in lower : \A j \in lower : i <= j]
                /\ r.section = EntryOf(Pre, r.path, sk, Name)
           /\ lower = {} => ~r.exists

\* a delete where the project layer and the user layer both defined the name
C9_Witness ==
    /\ IsCall("delete")
    /\ Definers(Pre, last.wd, SectionKey(last.k), Name) = {2, 3}
    /\ ~Defines(FS, ProjectPath, SectionKey(last.k), Name)
    /\ Defines(FS, UserPath, SectionKey(last.k), Name)

-----------------------------------------------------------------------------
(* C10 *)

\* C10: when a Markdown file for the name exists at P (project before user,
\* possibly a legacy path), the write path is P for every requested scope,
\* and an update with that working directory writes Markdown to P only: no
\* other Markdown path is created or modified, the lower-precedence user
\* file included, and P stays the artifact's source for the next call.
C10_UpdateNeverRelocates ==
    /\ \A wd \in WorkDirs, rs \in RequestedScopes :
           MdSource(FS, wd) # NoPath
               => get_agent_write_path(FS, wd, rs).path = MdSource(FS, wd)
    /\ (IsCall("update") /\ MdSource(Pre, last.wd) # NoPath)
       => /\ \A p \in MdPaths \ {MdSource(Pre, last.wd)} : MdAt(FS, p) = MdAt(Pre, p)
          /\ MdSource(FS, last.wd) = MdSource(Pre, last.wd)

\* the second of two updates rewrote a legacy project file while a user file
\* was there
C10_Witness ==
    /\ IsCall("update")
    /\ calls = 2
    /\ last.wd # None
    /\ MdSource(Pre, last.wd) = <<"project", "legacy">>
    /\ \E d \in Dirs : MdAt(Pre, <<"user", d>>) # NoFile
    /\ MdAt(FS, <<"project", "legacy">>) # MdAt(Pre, <<"project", "legacy">>)

-----------------------------------------------------------------------------
(* C11 *)

\* only the legacy entry of a scope is there
MdLegacyOnly(fs, scope) ==
    MdAt(fs, <<scope, "legacy">>) # NoFile /\ MdAt(fs, <<scope, "plural">>) = NoFile

SkillDirLegacyOnly(fs, scope) ==
    fs.skill[Foo][<<scope, "legacy">>] # NoDir /\ fs.skill[Foo][<<scope, "plural">>] = NoDir

HasSkillMd(fs, loc) ==
    fs.skill[Foo][loc] # NoDir /\ fs.skill[Foo][loc].md # NoFile

SkillMdLegacyOnly(fs, scope) ==
    HasSkillMd(fs, <<scope, "legacy">>) /\ ~HasSkillMd(fs, <<scope, "plural">>)

LegacyOr(legacy_only) == IF legacy_only THEN "legacy" ELSE "plural"

\* C11: for agents, commands and skills and for both scopes, path
\* resolution returns the legacy singular-directory path exactly when the
\* legacy entry exists and the plural entry does not, and the plural path in
\* every other case; when a plural file is put next to a legacy file the
\* resolution returns the plural path and the legacy file is still there.
C11_PluralLegacyResolution ==
    /\ IsCall("resolve") =>
          /\ last.k \in Kinds =>
                last.result = <<last.scope, LegacyOr(MdLegacyOnly(FS, last.scope))>>
          /\ last.k = "skill" =>
                last.result =
                    <<last.scope, LegacyOr(SkillMdLegacyOnly(FS, last.scope)), "SKILL.md">>
          /\ last.k = "skill_dir" =>
                last.result = <<last.scope, LegacyOr(SkillDirLegacyOnly(FS, last.scope))>>
    /\ \A scope \in Scopes :
          MdLegacyOnly(FS, scope) =>
              LET added == [FS EXCEPT !.md[scope]["plural"] = Md3]
                  path == IF scope = "project" THEN get_project_agent_path(added)
                          ELSE get_user_agent_path(added)
              IN  /\ path = <<scope, "plural">>
                  /\ MdAt(added, <<scope, "legacy">>) = MdAt(FS, <<scope, "legacy">>)
    /\ \A scope \in Scopes :
          SkillMdLegacyOnly(FS, scope) =>
              LET added == [FS EXCEPT !.skill[Foo][<<scope, "plural">>] = SkillDir(SkillMd, EmptyMap, {})]
                  path == IF scope = "project" THEN get_project_skill_path(added, Foo)
                          ELSE get_user_skill_path(added, Foo)
              IN  /\ path = <<scope, "plural", "SKILL.md">>
                  /\ HasSkillMd(added, <<scope, "legacy">>)

\* a lookup that returned the legacy path of a scope holding only the legacy
\* file, while the other scope holds both files
C11_Witness ==
    /\ IsCall("resolve")
    /\ last.k \in Kinds
    /\ MdLegacyOnly(FS, last.scope)
    /\ last.result = <<last.scope, "legacy">>
    /\ \E other \in Scopes \ {last.scope} :
          /\ MdAt(FS, <<other, "legacy">>) # NoFile
          /\ MdAt(FS, <<other, "plural">>) # NoFile

-----------------------------------------------------------------------------
(* C12 *)

\* C12: get_json_write_target returns the custom path when a custom layer is
\* configured, else the project path when one is configured, else the user
\* path, and the same path for the preferred scopes User, Project and None.
C12_WriteTarget ==
    /\ (IsCall("resolve") /\ last.k = "write_target") =>
          last.result = IF customSet THEN CustomPath
                        ELSE IF last.wd # None THEN ProjectPath
                        ELSE UserPath
    /\ \A wd \in WorkDirs : \A s1, s2 \in RequestedScopes :
          get_json_write_target(read_config_layers(FS, wd), s1)
              = get_json_write_target(read_config_layers(FS, wd), s2)

\* the user scope was preferred, no custom layer is configured, and the
\* project path was returned
C12_Witness ==
    /\ IsCall("resolve")
    /\ last.k = "write_target"
    /\ last.scope = "user"
    /\ ~customSet
    /\ last.result = ProjectPath

-----------------------------------------------------------------------------
(* C13 *)

\* C13: after a successful write_config_at(doc, path) the path holds doc;
\* when the path existed before the call with content C its backup holds
\* exactly C, whatever the backup held before, and when the path did not
\* exist its backup is as before; no other file changes.  Holding after
\* every write of a sequence, the backup is the content the path held just
\* before the most recent write.
C13_BackupSingleSlot ==
    (IsCall("write_config_at") /\ last.ok) =>
        LET path == last.args.config_file
        IN  /\ json[path] = last.args.config
            /\ Pre.json[path] # NoFile => backup[path] = Pre.json[path]
            /\ Pre.json[path] = NoFile => backup[path] = Pre.backup[path]
            /\ \A l \in Layers \ {path} :
                  json[l] = Pre.json[l] /\ backup[l] = Pre.backup[l]
            /\ md = Pre.md /\ prompts = Pre.prompts

\* the second write to one path: the backup of the first write is replaced
\* by the document the first write left
C13_Witness ==
    /\ IsCall("write_config_at")
    /\ calls = 2
    /\ LET path == last.args.config_file
       IN  /\ Pre.backup[path] # NoFile
           /\ Pre.json[path] # Pre.backup[path]
           /\ backup[path] = Pre.json[path]
           /\ json[path] # Pre.json[path]

-----------------------------------------------------------------------------
(* C14 *)

\* the value at a key path of a document, NoValue where there is none
RECURSIVE At(_, _)
At(v, p) ==
    IF p = << >> THEN v
    ELSE IF is_object(v) /\ Head(p) \in DOMAIN v.m THEN At(v.m[Head(p)], Tail(p))
    ELSE NoValue

RECURSIVE PathsOf(_)
PathsOf(v) ==
    {<< >>} \cup
    (IF is_object(v)
     THEN UNION {{<<key>> \o q : q \in PathsOf(v.m[key])} : key \in DOMAIN v.m}
     ELSE {})

Holds(v, p) == At(v, p) # NoValue

\* a value that is not an object sits at a proper prefix of p
Clobbers(v, p) ==
    \E n \in 0..(Len(p) - 1) :
        Holds(v, SubSeq(p, 1, n)) /\ ~is_object(At(v, SubSeq(p, 1, n)))

\* the value of a layer as a call with wd loads it
LayerValue(fs, wd, l) ==
    IF Configured(fs, wd, l) /\ fs.json[l] # NoFile THEN fs.json[l] ELSE Obj(EmptyMap)

\* C14: the merged view is merge(merge(user, project), custom).  At every
\* key path where custom holds a value that is not an object (a scalar, an
\* array or null) the merged view holds exactly that value, whatever user
\* and project hold there; likewise for project over user where custom has
\* nothing to say, so an array replaces an array and is never concatenated;
\* and a key path held by one layer only, with no higher layer putting a
\* value that is not an object above it, keeps that layer's value.
C14_MergedView ==
    (IsCall("resolve") /\ last.k = "read_config") =>
        LET merged == last.result
            user == LayerValue(FS, last.wd, UserPath)
            project == LayerValue(FS, last.wd, ProjectPath)
            custom == LayerValue(FS, last.wd, CustomPath)
            paths == PathsOf(user) \cup PathsOf(project) \cup PathsOf(custom)
                     \cup PathsOf(merged)
        IN  /\ merged = merge_values(merge_values(user, project), custom)
            /\ \A p \in paths :
                  /\ (Holds(custom, p) /\ ~is_object(At(custom, p)))
                        => At(merged, p) = At(custom, p)
                  /\ (/\ Holds(project, p) /\ ~is_object(At(project, p))
                      /\ ~Holds(custom, p) /\ ~Clobbers(custom, p))
                        => At(merged, p) = At(project, p)
                  /\ (/\ Holds(user, p)
                      /\ ~Holds(project, p) /\ ~Clobbers(project, p)
                      /\ ~Holds(custom, p) /\ ~Clobbers(custom, p))
                        => At(merged, p) = At(user, p)
                  /\ (/\ Holds(project, p) /\ ~Holds(user, p)
                      /\ ~Holds(custom, p) /\ ~Clobbers(custom, p))
                        => At(merged, p) = At(project, p)

\* a merged view where a scalar of custom replaced an object of user, an
\* array of project replaced an array of user, and a key of user alone was
\* kept
C14_Witness ==
    /\ IsCall("resolve")
    /\ last.k = "read_config"
    /\ last.wd # None
    /\ customSet
    /\ json[UserPath] = U1 /\ json[ProjectPath] = P1 /\ json[CustomPath] = C1
    /\ last.result = Obj(M(("a" :> B) @@ ("b" :> Arr(<<B>>)) @@ ("c" :> A)))

-----------------------------------------------------------------------------
(* C15 *)

IsBlank(s) == \A i \in 1..Len(s) : IsWs(s[i])

\* the text without its leading blank lines
RECURSIVE StripLeadingBlankLines(_)
StripLeadingBlankLines(s) ==
    IF \E i \in 1..Len(s) : s[i] = "\n" /\ IsBlank(SubSeq(s, 1, i))
    THEN LET i == CHOOSE x \in 1..Len(s) : s[x] = "\n" /\ IsBlank(SubSeq(s, 1, x))
         IN  StripLeadingBlankLines(SubSeq(s, i + 1, Len(s)))
    ELSE s

\* the text without its trailing blank lines
RECURSIVE StripTrailingBlankLines(_)
StripTrailingBlankLines(s) ==
    IF \E i \in 1..Len(s) : s[i] = "\n" /\ IsBlank(SubSeq(s, i, Len(s)))
    THEN LET i == CHOOSE x \in 1..Len(s) : s[x] = "\n" /\ IsBlank(SubSeq(s, x, Len(s)))
         IN  StripTrailingBlankLines(SubSeq(s, 1, i - 1))
    ELSE s

\* the text trimmed of surrounding blank lines: spaces on its first and last
\* line that holds text stay
StripBlankLines(s) ==
    IF IsBlank(s) THEN << >> ELSE StripTrailingBlankLines(StripLeadingBlankLines(s))

\* the entries of a mapping whose value is not null
NonNull(fm) == [key \in {x \in DOMAIN fm : fm[x] # Null} |-> fm[key]]

IsRoundTrip == IsCall("resolve") /\ last.k = "md_round_trip"

\* what the store's operations on a file give for the same write and parse
StoreRoundTrip(frontmatter, body) ==
    parse_md_file(write_md_file(FS, <<"user", "plural">>, frontmatter, body),
                  <<"user", "plural">>)

-----------------------------------------------------------------------------
(* C16 *)

\* the fields the call named with a null value
NullFields == {f \in DOMAIN last.args : last.args[f] = Null}

\* the front-matter keys of the Markdown source a call with wd sees
SourceFrontMatterKeys(fs, wd) ==
    IF MdSource(fs, wd) = NoPath THEN {}
    ELSE DOMAIN MdAt(fs, MdSource(fs, wd)).fm

\* C16: after a successful update, a field whose update value is null is in
\* the front-matter of the artifact's Markdown source no more and in the
\* artifact's JSON section no more; the Markdown source and the layer that
\* holds the section are the ones of before the call.
C16_NullRemovesFromBoth ==
    (IsCall("update") /\ last.ok) =>
        /\ MdSource(Pre, last.wd) # NoPath => MdSource(FS, last.wd) = MdSource(Pre, last.wd)
        /\ Definers(FS, last.wd, SectionKey(last.k), Name)
             = Definers(Pre, last.wd, SectionKey(last.k), Name)
        /\ \A f \in NullFields :
              /\ f \notin SourceFrontMatterKeys(FS, last.wd)
              /\ f \notin SectionFields(FS, last.wd, SectionKey(last.k), Name)

\* a null update of a field that the front-matter and the section both held
C16_Witness ==
    /\ IsCall("update")
    /\ last.ok
    /\ \E f \in NullFields :
          /\ f \in SourceFrontMatterKeys(Pre, last.wd)
          /\ f \in SectionFields(Pre, last.wd, SectionKey(last.k), Name)
          /\ f \notin SourceFrontMatterKeys(FS, last.wd)
          /\ f \notin SectionFields(FS, last.wd, SectionKey(last.k), Name)
          /\ md # Pre.md
          /\ json # Pre.json

-----------------------------------------------------------------------------
(* C17 *)

\* the references found in the documents and the files they name: a path
\* relative to the user configuration directory, and an absolute path
RefTargets ==
    {[ref |-> FileRef, file |-> [abs |-> FALSE, p |-> <<"p">>]],
     [ref |-> FileRefAbs, file |-> [abs |-> TRUE, p |-> <<"/", "q">>]]}

\* the call named the content field with a value that is not null
ContentUpdate ==
    /\ ContentField(last.k) \in DOMAIN last.args
    /\ last.args[ContentField(last.k)] # Null

\* the content field of the section a call with wd sees, NoValue without one
SectionContent(fs, wd, k) ==
    IF ContentField(k) \in SectionFields(fs, wd, SectionKey(k), Name)
    THEN EntryOf(fs, FirstDefiner(fs, wd, SectionKey(k), Name), SectionKey(k), Name)
             .m[ContentField(k)]
    ELSE NoValue

\* C17: when the artifact has no Markdown source and the content field of
\* its JSON section is a {file:<path>} reference, an update of the content
\* field to a text succeeds, makes that text the content of the referenced
\* file (under the user configuration directory for a relative path, the
\* path itself for an absolute one) and of no other file, leaves the
\* content field of the section as it was, creates no Markdown file, and,
\* when it names no other field, writes no JSON document.
C17_FileReferenceUpdate ==
    \A t \in RefTargets :
        ( /\ IsCall("update")
          /\ ContentUpdate
          /\ MdSource(Pre, last.wd) = NoPath
          /\ SectionContent(Pre, last.wd, last.k) = t.ref )
        => /\ last.ok
           /\ prompts = Put(Pre.prompts, t.file, last.args[ContentField(last.k)].s)
           /\ SectionContent(FS, last.wd, last.k) = t.ref
           /\ md = Pre.md
           /\ DOMAIN last.args = {ContentField(last.k)}
                => json = Pre.json /\ backup = Pre.backup

\* an update of the content field alone wrote the file of the absolute
\* reference and no JSON document
C17_Witness ==
    /\ IsCall("update")
    /\ DOMAIN last.args = {ContentField(last.k)}
    /\ ContentUpdate
    /\ MdSource(Pre, last.wd) = NoPath
    /\ SectionContent(Pre, last.wd, last.k) = FileRefAbs
    /\ prompts # Pre.prompts
    /\ [abs |-> TRUE, p |-> <<"/", "q">>] \in DOMAIN prompts
    /\ json = Pre.json

-----------------------------------------------------------------------------
(* C18 *)

\* the ordinary fields the call named with a value that is not null
OrdinaryUpdates ==
    {f \in DOMAIN last.args : f # ContentField(last.k) /\ last.args[f] # Null}

\* f is a front-matter key of the Markdown source a call with wd sees, with
\* a value that is not null
InSourceFrontMatter(fs, wd, f) ==
    /\ f \in SourceFrontMatterKeys(fs, wd)
    /\ MdAt(fs, MdSource(fs, wd)).fm[f] # Null

\* C18: when an ordinary field is both in the artifact's JSON section and,
\* with a value that is not null, in the front-matter of its Markdown
\* source, an update of the field to a value that is not null sets the
\* value in the section, in the layer that holds it, and every Markdown
\* file keeps the field as it was, whatever else the call names.
C18_JsonAuthoritative ==
    \A f \in UpdateFieldNames(kind) :
        ( /\ IsCall("update")
          /\ f \in OrdinaryUpdates
          /\ f \in SectionFields(Pre, last.wd, SectionKey(last.k), Name)
          /\ InSourceFrontMatter(Pre, last.wd, f) )
        => /\ last.ok
           /\ LET l == FirstDefiner(Pre, last.wd, SectionKey(last.k), Name)
              IN  /\ Defines(FS, l, SectionKey(last.k), Name)
                  /\ EntryOf(FS, l, SectionKey(last.k), Name).t = "obj"
                  /\ Member(EntryOf(FS, l, SectionKey(last.k), Name).m, f) = last.args[f]
           /\ \A p \in MdPaths :
                 SameAt(ReadMd(Pre, p).frontmatter, ReadMd(FS, p).frontmatter, f)

\* the field was in both sources with the same value; the call set it in
\* the section and rewrote the Markdown file for the content field, and the
\* front-matter still holds the old value
C18_Witness ==
    /\ IsCall("update")
    /\ "model" \in OrdinaryUpdates
    /\ "model" \in SectionFields(Pre, last.wd, SectionKey(last.k), Name)
    /\ InSourceFrontMatter(Pre, last.wd, "model")
    /\ ContentUpdate
    /\ md # Pre.md
    /\ json # Pre.json
    /\ MdAt(FS, MdSource(FS, last.wd)).fm["model"] = A
    /\ last.args["model"] = B

-----------------------------------------------------------------------------
(* C19 *)

\* the Markdown paths where the call left a file and found none
NewMdFiles == {p \in MdPaths : MdAt(Pre, p) = NoFile /\ MdAt(FS, p) # NoFile}

\* C19 as stated: an update creates a Markdown file only when, before the
\* call, there is no Markdown file for the name and no layer holds a JSON
\* section for it, and then at the user-scope path, with or without a
\* working directory.  (Files and layers are those a call with this working
\* directory looks at.)
C19_NewFileOnlyForBuiltin ==
    IsCall("update") =>
        \A p \in NewMdFiles :
            /\ MdSource(Pre, last.wd) = NoPath
            /\ Definers(Pre, last.wd, SectionKey(last.k), Name) = {}
            /\ p[1] = "user"

\* C19, what holds: an update creates a Markdown file only when the call
\* sees no Markdown file and the section of the first layer that defines
\* the name has no fields (there is none, or it is empty, or it is not an
\* object), and then at the user-scope path.
C19_NewFileOnlyWithoutFields ==
    IsCall("update") =>
        \A p \in NewMdFiles :
            /\ MdSource(Pre, last.wd) = NoPath
            /\ SectionFields(Pre, last.wd, SectionKey(last.k), Name) = {}
            /\ p = <<"user", "plural">>

\* an update with a working directory, for a name without Markdown file and
\* without section, created the user-scope file
C19_Witness ==
    /\ IsCall("update")
    /\ last.wd # None
    /\ MdSource(Pre, last.wd) = NoPath
    /\ Definers(Pre, last.wd, SectionKey(last.k), Name) = {}
    /\ NewMdFiles = {<<"user", "plural">>}

\* an update created a Markdown file for a name whose section, empty in the
\* project document, has fields in the user document
C19_ShadowedSection ==
    /\ IsCall("update")
    /\ NewMdFiles # {}
    /\ Definers(Pre, last.wd, SectionKey(last.k), Name) = {2, 3}
    /\ EntryOf(Pre, UserPath, SectionKey(last.k), Name) = E1

-----------------------------------------------------------------------------
(* C20 *)

\* the name is a built-in for a call with wd: no Markdown file and no JSON
\* section
IsBuiltin(fs, wd, k) ==
    /\ MdSource(fs, wd) = NoPath
    /\ Definers(fs, wd, SectionKey(k), Name) = {}

\* the call named the content field alone and its text went to a JSON
\* document
ContentThroughJson ==
    /\ DOMAIN last.args = {ContentField(last.k)}
    /\ json # Pre.json

\* the user-scope Markdown file exists and holds the fields the call set:
\* the ordinary ones in the front-matter, the content in the body
UserFileHoldsUpdates ==
    /\ MdAt(FS, <<"user", "plural">>) # NoFile
    /\ \A f \in OrdinaryUpdates :
          Member(ReadMd(FS, <<"user", "plural">>).frontmatter, f) = last.args[f]
    /\ \A f \in NullFields : f \notin DOMAIN ReadMd(FS, <<"user", "plural">>).frontmatter
    /\ ContentUpdate =>
          ReadMd(FS, <<"user", "plural">>).body = Trim(last.args[ContentField(last.k)].s)

\* C20 as stated: after a successful update of a built-in, unless the update
\* touches only the content field and through the JSON path, the user-scope
\* Markdown file exists and holds the updated fields.
C20_FirstCustomizationAlways ==
    ( /\ IsCall("update")
      /\ last.ok
      /\ IsBuiltin(Pre, last.wd, last.k)
      /\ ~ContentThroughJson )
    => UserFileHoldsUpdates

\* C20 as amended: a successful update of a built-in that names a field
\* with a value that is not null creates the user-scope Markdown file, which
\* holds the updated fields, the content field in its body, and writes no
\* JSON document; an update that names no field or only null values
\* succeeds, creates no file and writes nothing.
C20_FirstCustomization ==
    ( /\ IsCall("update")
      /\ IsBuiltin(Pre, last.wd, last.k) )
    => /\ last.ok
       /\ json = Pre.json
       /\ IF NullFields # DOMAIN last.args
          THEN /\ MdAt(Pre, <<"user", "plural">>) = NoFile
               /\ UserFileHoldsUpdates
               /\ NewMdFiles = {<<"user", "plural">>}
          ELSE md = Pre.md

\* the first customization, with a working directory, set an ordinary field
\* and the content field; both are in the new user-scope file
C20_Witness ==
    /\ IsCall("update")
    /\ last.wd # None
    /\ IsBuiltin(Pre, last.wd, last.k)
    /\ OrdinaryUpdates # {}
    /\ ContentUpdate
    /\ UserFileHoldsUpdates
    /\ NewMdFiles = {<<"user", "plural">>}

-----------------------------------------------------------------------------
(* C21 *)

\* some SKILL.md of the name is left at a location a call with wd looks at
SkillMdLeft(fs, skill_name, wd) ==
    \E loc \in SkillLocs :
        /\ loc[1] = "user" \/ wd # None
        /\ fs.skill[skill_name][loc] # NoDir
        /\ fs.skill[skill_name][loc].md # NoFile

\* C21 as stated: after a successful delete_skill no SKILL.md of the name
\* is left at the project location (plural or legacy), the Claude location
\* or the user location (plural or legacy) that the call looks at, and
\* get_skill_scope finds nothing.
C21_DeleteSkillRemovesAll ==
    (IsCall("delete_skill") /\ last.ok) =>
        /\ ~SkillMdLeft(FS, last.args.skill_name, last.wd)
        /\ get_skill_scope(FS, last.args.skill_name, last.wd) = NoScope

\* a successful delete_skill of a skill found at every location
C21_Witness ==
    /\ IsCall("delete_skill")
    /\ last.ok
    /\ last.wd # None
    /\ \A loc \in SkillLocs \ {<<"project", "legacy">>} :
          Pre.skill[last.args.skill_name][loc] # NoDir
    /\ ~SkillMdLeft(FS, last.args.skill_name, last.wd)

\* C21, what holds: after a successful delete_skill the only SKILL.md of
\* the name that a call with the same working directory can still find is
\* the one in the legacy project directory, and it is left exactly when the
\* plural project directory existed next to it before the call.
C21_DeleteSkillLeavesShadowedLegacy ==
    (IsCall("delete_skill") /\ last.ok) =>
        LET n == last.args.skill_name
        IN  /\ \A loc \in SkillLocs \ {<<"project", "legacy">>} :
                  (loc[1] = "user" \/ last.wd # None) => skill[n][loc] = NoDir
            /\ last.wd # None =>
                  skill[n][<<"project", "legacy">>] =
                      IF Pre.skill[n][<<"project", "plural">>] # NoDir
                      THEN Pre.skill[n][<<"project", "legacy">>]
                      ELSE NoDir

-----------------------------------------------------------------------------
(* C22 *)

\* between 1 and 64 characters, each a lowercase letter, a digit or a
\* hyphen, the first and the last no hyphen
WellFormedName(n) ==
    /\ Len(n) \in 1..MaxSkillNameLen
    /\ \A i \in 1..Len(n) : n[i] \in LowerAlnum \cup {"-"}
    /\ n[1] # "-"
    /\ n[Len(n)] # "-"

\* C22: validate_skill_name accepts a name exactly when it is well formed,
\* create_skill fails on the name exactly when it is not, and then it
\* leaves every skill directory and file as it was.
C22_SkillNameValidation ==
    /\ (IsCall("resolve") /\ last.k = "validate_skill_name") =>
          (last.result <=> WellFormedName(last.args.skill_name))
    /\ IsCall("create_skill") =>
          /\ last.error = "InvalidName" <=> ~WellFormedName(last.args.skill_name)
          /\ ~WellFormedName(last.args.skill_name) =>
                ~last.ok /\ skill = Pre.skill /\ md = Pre.md

\* create_skill refused a name that starts with a hyphen, after an earlier
\* call had created a skill
C22_Witness ==
    /\ IsCall("create_skill")
    /\ last.args.skill_name = <<"-", "a">>
    /\ last.error = "InvalidName"
    /\ skill = Pre.skill
    /\ skill # NoSkills

\* a name of 64 characters was accepted
C22_LongestName ==
    /\ IsCall("resolve")
    /\ last.k = "validate_skill_name"
    /\ Len(last.args.skill_name) = MaxSkillNameLen
    /\ last.result

-----------------------------------------------------------------------------
(* C23 *)

\* the SKILL.md at loc of the skill named n, NoFile when there is none
SkillMdAt(fs, n, loc) ==
    IF fs.skill[n][loc] = NoDir THEN NoFile ELSE fs.skill[n][loc].md

\* the supporting files at loc of the skill named n
SkillFilesAt(fs, n, loc) ==
    IF fs.skill[n][loc] = NoDir THEN EmptyMap ELSE fs.skill[n][loc].files

\* the locations where the call wrote SKILL.md
WrittenSkillMd(n) ==
    {loc \in SkillLocs : SkillMdAt(FS, n, loc) # NoFile
                         /\ SkillMdAt(FS, n, loc) # SkillMdAt(Pre, n, loc)}

\* the call left every SKILL.md and every supporting file as it was
NoSkillFileWritten ==
    \A n \in SkillNames, loc \in SkillLocs :
        /\ SkillMdAt(FS, n, loc) = SkillMdAt(Pre, n, loc)
        /\ SkillFilesAt(FS, n, loc) = SkillFilesAt(Pre, n, loc)

\* the configuration has a description with a value
UsableDescription(config) ==
    "description" \in DOMAIN config /\ config["description"] # Null

\* C23 as stated: every SKILL.md written by create_skill has a description
\* entry and a name entry, the name of the skill when the configuration
\* has none; a create_skill whose configuration has no usable description
\* fails and writes no SKILL.md and no supporting file.
C23_DescriptionRequired ==
    (IsCall("create_skill") /\ WellFormedName(last.args.skill_name)) =>
        /\ \A loc \in WrittenSkillMd(last.args.skill_name) :
              LET fm == SkillMdAt(FS, last.args.skill_name, loc).fm
              IN  /\ "description" \in DOMAIN fm
                  /\ "name" \in DOMAIN fm
                  /\ "name" \notin DOMAIN last.args.config
                        => fm["name"] = Str(last.args.skill_name)
        /\ ~UsableDescription(last.args.config) => ~last.ok /\ NoSkillFileWritten

\* C23, what holds: the same with "has a description key" for "has a usable
\* description", and with a description entry and a name entry only for
\* the keys whose value in the configuration is not null.
C23_DescriptionKeyRequired ==
    (IsCall("create_skill") /\ WellFormedName(last.args.skill_name)) =>
        /\ \A loc \in WrittenSkillMd(last.args.skill_name) :
              LET fm == SkillMdAt(FS, last.args.skill_name, loc).fm
                  config == last.args.config
              IN  /\ "description" \in DOMAIN fm <=> config["description"] # Null
                  /\ "name" \notin DOMAIN config => fm["name"] = Str(last.args.skill_name)
                  /\ "name" \in DOMAIN config =>
                        ("name" \in DOMAIN fm <=> config["name"] # Null)
        /\ "description" \notin DOMAIN last.args.config => ~last.ok /\ NoSkillFileWritten

\* a create_skill without name in its configuration wrote SKILL.md with the
\* description and the name of the skill
C23_Witness ==
    /\ IsCall("create_skill")
    /\ last.ok
    /\ "name" \notin DOMAIN last.args.config
    /\ \E loc \in WrittenSkillMd(last.args.skill_name) :
          /\ SkillMdAt(FS, last.args.skill_name, loc).fm["name"] = Str(last.args.skill_name)
          /\ SkillMdAt(FS, last.args.skill_name, loc).fm["description"] = D

\* a create_skill without description failed and left the directory it had
\* created
C23_FailedCreateLeavesDirectory ==
    /\ IsCall("create_skill")
    /\ last.error = "DescriptionRequired"
    /\ skill # Pre.skill
    /\ NoSkillFileWritten

-----------------------------------------------------------------------------
(* C24 *)

\* the locations in the order of precedence: project plural, project
\* legacy, Claude, user plural, user legacy
SkillPrecedence ==
    <<<<"project", "plural">>, <<"project", "legacy">>, <<"claude", "plural">>,
      <<"user", "plural">>, <<"user", "legacy">>>>

\* positions in SkillPrecedence of the locations a call with wd reads that
\* hold a SKILL.md of the name
SkillHolders(fs, n, wd) ==
    {i \in 1..5 : /\ SkillPrecedence[i][1] = "user" \/ wd # None
                  /\ SkillMdAt(fs, n, SkillPrecedence[i]) # NoFile}

FirstSkillLoc(fs, n, wd) ==
    SkillPrecedence[CHOOSE i \in SkillHolders(fs, n, wd) :
                        \A j \in SkillHolders(fs, n, wd) : i <= j]

IsDiscovery == IsCall("resolve") /\ last.k = "discover_skills"

\* C24: discover_skills returns at most one entry for a name; a name has an
\* entry exactly when some location holds its SKILL.md, the entry is the
\* one of the first such location in the order of precedence, and its
\* path, scope and source are those get_skill_scope returns for the name.
C24_DiscoverFirstFound ==
    IsDiscovery =>
        /\ \A e1, e2 \in last.result : e1.name = e2.name => e1 = e2
        /\ \A e \in last.result : e.name \in SkillNames
        /\ \A n \in SkillNames :
              IF SkillHolders(FS, n, last.wd) = {}
              THEN /\ \A e \in last.result : e.name # n
                   /\ get_skill_scope(FS, n, last.wd) = NoScope
              ELSE \E e \in last.result :
                      /\ e.name = n
                      /\ e.path = SkillMdPath(FirstSkillLoc(FS, n, last.wd))
                      /\ e.scope = (IF e.path[1] = "user" THEN "user" ELSE "project")
                      /\ e.source = (IF e.path[1] = "claude" THEN "claude" ELSE "opencode")
                      /\ get_skill_scope(FS, n, last.wd)
                           = [scope |-> e.scope, path |-> e.path, source |-> e.source]

\* a discovery with a working directory returned two names; one of them
\* has SKILL.md in the legacy project directory, next to a plural project
\* directory without SKILL.md, in the Claude directory and in a user
\* directory, and is listed with the legacy project path
C24_Witness ==
    /\ IsDiscovery
    /\ last.wd # None
    /\ Cardinality(last.result) = 2
    /\ skill[Foo][<<"project", "plural">>] # NoDir
    /\ SkillHolders(FS, Foo, last.wd) = {2, 3, 4}
    /\ \E e \in last.result :
          e.name = Foo /\ e.path = <<"project", "legacy", "SKILL.md">>

-----------------------------------------------------------------------------
(* C25 *)

IsSupportingDelete == IsCall("delete_skill_supporting_file")

\* the skill directory the call was given, before and after the call
SupportingDirPre  == Pre.skill[last.args.skill_name][last.args.loc]
SupportingDirPost == FS.skill[last.args.skill_name][last.args.loc]
SupportingPath    == Components(last.args.relative_path)

\* the directories strictly between the skill directory and the file
AncestorsBelowRoot(path) == {SubSeq(path, 1, n) : n \in 1..(Len(path) - 1)}

\* after the removal of the file at path, the directory q holds no file and
\* no directory other than ancestors of path
HoldsNothingElse(d, path, q) ==
    /\ \A f \in DOMAIN d.files \ {path} : ~IsPrefix(q, f)
    /\ \A g \in d.dirs \ AncestorsBelowRoot(path) : ~(Len(g) > Len(q) /\ IsPrefix(q, g))

\* the call was given the path of an existing supporting file
DeletesSupportingFile ==
    /\ IsSupportingDelete
    /\ SupportingDirPre # NoDir
    /\ SupportingPath \in DOMAIN SupportingDirPre.files

\* nothing exists at the path the call was given
NothingAtPath ==
    /\ IsSupportingDelete
    /\ \/ SupportingDirPre = NoDir
       \/ /\ last.args.relative_path # << >>
          /\ SupportingPath \notin DOMAIN SupportingDirPre.files
          /\ SupportingPath \notin SupportingDirPre.dirs
          /\ ~(SupportingPath = <<SkillMdName>> /\ SupportingDirPre.md # NoFile)

\* C25: when delete_skill_supporting_file deletes an existing supporting
\* file, the file is gone, an ancestor directory strictly below the skill
\* directory is removed exactly when nothing else is left in it, the skill
\* directory stays, SKILL.md and every other supporting file are as they
\* were, and nothing else changes; when nothing exists at the path the
\* call succeeds and changes nothing.
C25_PruneEmptyAncestors ==
    /\ DeletesSupportingFile =>
          /\ last.ok
          /\ SupportingDirPost # NoDir
          /\ SupportingDirPost.md = SupportingDirPre.md
          /\ SupportingDirPost.files = Del(SupportingDirPre.files, SupportingPath)
          /\ SupportingDirPost.dirs =
                {q \in SupportingDirPre.dirs :
                    ~(/\ q \in AncestorsBelowRoot(SupportingPath)
                      /\ HoldsNothingElse(SupportingDirPre, SupportingPath, q))}
          /\ FS = [Pre EXCEPT !.skill[last.args.skill_name][last.args.loc] = SupportingDirPost]
    /\ NothingAtPath => last.ok /\ FS = Pre

\* the file s/d/r was deleted while s/q stayed: the emptied directory s/d
\* is gone, the directory s, SKILL.md and s/q are still there
C25_Witness ==
    /\ DeletesSupportingFile
    /\ SupportingPath = <<<<"s">>, <<"d">>, <<"r">>>>
    /\ <<<<"s">>, <<"d">>>> \in SupportingDirPre.dirs
    /\ SupportingDirPost.dirs = {<<<<"s">>>>}
    /\ DOMAIN SupportingDirPost.files = {<<<<"s">>, <<"q">>>>}
    /\ SupportingDirPost.md # NoFile

\* the last file below s was deleted: s/d and s are both gone and the
\* skill directory is left with SKILL.md alone
C25_PrunedUpToRoot ==
    /\ DeletesSupportingFile
    /\ SupportingDirPre.dirs = {<<<<"s">>>>, <<<<"s">>, <<"d">>>>}
    /\ SupportingDirPost = SkillDir(SkillMd, EmptyMap, {})

\* a call for a path where nothing exists, in an existing skill directory
C25_AbsentPath ==
    /\ NothingAtPath
    /\ SupportingDirPre # NoDir
    /\ SupportingDirPre.files # EmptyMap

-----------------------------------------------------------------------------
(* Vocabulary of the calls in flight *)

HasReturned(p) == proc[p].pc = "returned"

\* the call p ran with no other call in flight, and none has started since
RanAlone(p) ==
    /\ proc[p].pc # "idle"
    /\ proc[p].alone
    /\ \A q \in Procs \ {p} : proc[q].pc = "idle" \/ proc[q].began < proc[p].began

\* the call as one step, from the state it started in
CallResult(p) ==
    IF proc[p].op = "update"
    THEN update_agent(proc[p].pre, kind, Name, proc[p].updates, proc[p].wd)
    ELSE delete_agent(proc[p].pre, kind, Name, proc[p].wd)

\* a call that ran alone and met no failing write leaves the files that the
\* call taken as one step leaves, with the same result
StepsAgreeWithCall ==
    \A p \in Procs :
        HasReturned(p) /\ RanAlone(p) /\ proc[p].failed \in {None, "lookup"} =>
            /\ md = CallResult(p).fs.md
            /\ json = CallResult(p).fs.json
            /\ backup = CallResult(p).fs.backup
            /\ proc[p].ok = CallResult(p).ok

-----------------------------------------------------------------------------
(* C26 *)

\* the calls that have written the document at path l
WritersOf(l) == {p \in Procs : proc[p].seq > 0 /\ proc[p].json_write.path = l}

LastWriterOf(l) == CHOOSE p \in WritersOf(l) : \A q \in WritersOf(l) : proc[q].seq <= proc[p].seq

\* the section of the artifact in a document, NoValue when it has none
SectionOf(doc) ==
    IF doc # NoFile /\ LayerHasEntry(doc, SectionKey(kind), Name)
    THEN doc.m[SectionKey(kind)].m[Name] ELSE NoValue

\* C26: calls in flight at the same time write a JSON document whole and
\* unchecked: the document is exactly the one its last writer wrote, made
\* from what that call had read, and every call that wrote it returns
\* success.
C26_LastWriterWins ==
    /\ \A l \in Layers :
          WritersOf(l) # {} => json[l] = proc[LastWriterOf(l)].json_write.config
    /\ \A p \in Procs : proc[p].seq > 0 /\ proc[p].op = "update" =>
          proc[p].json_write = proc[p].c.json_write
    /\ \A p \in Procs : proc[p].seq > 0 /\ HasReturned(p) => proc[p].ok

\* two updates of different fields read the same document before either
\* wrote it; both returned success, and the model that the first writer set
\* is not in the final document
C26_Witness ==
    \E a, b \in Procs :
        /\ HasReturned(a) /\ HasReturned(b) /\ proc[a].ok /\ proc[b].ok
        /\ proc[a].seq = 1 /\ proc[b].seq = 2
        /\ proc[a].json_write.path = proc[b].json_write.path
        /\ proc[a].updates = M(("model" :> B))
        /\ proc[b].updates = M((ContentField(kind) :> B))
        /\ SectionOf(proc[a].json_write.config).m["model"] = B
        /\ SectionOf(json[proc[b].json_write.path]).m["model"] = A
        /\ SectionOf(json[proc[b].json_write.path]).m[ContentField(kind)] = B

\* an update wrote after a delete that it had not seen: both returned
\* success and the deleted section is in the final document again
C26_DeletedSectionRestored ==
    \E a, b \in Procs :
        /\ HasReturned(a) /\ HasReturned(b) /\ proc[a].ok /\ proc[b].ok
        /\ proc[a].op = "delete" /\ proc[b].op = "update"
        /\ proc[a].seq = 1 /\ proc[b].seq = 2
        /\ proc[a].json_write.path = proc[b].json_write.path
        /\ SectionOf(proc[a].json_write.config) = NoValue
        /\ SectionOf(json[proc[b].json_write.path]) # NoValue

-----------------------------------------------------------------------------
(* C27 *)

\* the update p has decided to write the Markdown file and the document
ChangesBothSources(p) ==
    /\ proc[p].op = "update"
    /\ proc[p].c # NoValue
    /\ proc[p].c.md_write # NoWrite
    /\ proc[p].c.json_write # NoWrite

\* C27: an update that changes both sources writes the Markdown file before
\* the JSON document.  The document is never written while the Markdown
\* write is outstanding; when the Markdown write fails the call returns an
\* error with nothing written or backed up; when the backup or the write
\* of the document fails the call returns an error with the Markdown file
\* written.  For a call that ran alone: after a failed Markdown write all
\* files are as before the call, after a failed document write the
\* Markdown files are those of the completed call and the documents those
\* of before.
C27_MarkdownBeforeJson ==
    \A p \in Procs : ChangesBothSources(p) =>
        /\ "json" \in proc[p].written => "md" \in proc[p].written
        /\ proc[p].json_write # NoValue => "md" \in proc[p].written
        /\ proc[p].failed = "md" =>
              /\ ~proc[p].ok
              /\ proc[p].written = {}
              /\ proc[p].json_write = NoValue
              /\ RanAlone(p) => md = proc[p].pre.md /\ json = proc[p].pre.json
                                /\ backup = proc[p].pre.backup
        /\ proc[p].failed \in {"backup", "json"} =>
              /\ ~proc[p].ok
              /\ proc[p].written = {"md"}
              /\ RanAlone(p) => md = CallResult(p).fs.md /\ json = proc[p].pre.json

\* an update alone changed the body of the Markdown file and then failed to
\* write the document: it returned an error, the file has the new body and
\* the document is the one of before
C27_Witness ==
    \E p \in Procs :
        /\ ChangesBothSources(p) /\ RanAlone(p) /\ HasReturned(p)
        /\ proc[p].failed = "json"
        /\ ~proc[p].ok
        /\ md # proc[p].pre.md
        /\ md = CallResult(p).fs.md
        /\ json = proc[p].pre.json
        /\ json # CallResult(p).fs.json

\* an update alone failed to write the Markdown file
C27_MarkdownWriteFailed ==
    \E p \in Procs :
        /\ ChangesBothSources(p) /\ RanAlone(p) /\ HasReturned(p)
        /\ proc[p].failed = "md"
        /\ CallResult(p).fs.json # proc[p].pre.json
        /\ json = proc[p].pre.json

-----------------------------------------------------------------------------
(* C28 *)

\* the call set f, an ordinary field, to a value that is not null, and
\* before the call f was neither a front-matter key of the Markdown source
\* nor a field of the JSON section
NewOrdinaryField(f) ==
    /\ IsCall("update")
    /\ f \in OrdinaryUpdates
    /\ f \notin SourceFrontMatterKeys(Pre, last.wd)
    /\ f \notin SectionFields(Pre, last.wd, SectionKey(last.k), Name)

\* the file at path p has f in its front-matter with the value of the call
InFrontMatterAt(p, f) ==
    /\ MdAt(FS, p) # NoFile
    /\ f \in DOMAIN MdAt(FS, p).fm
    /\ MdAt(FS, p).fm[f] = last.args[f]

C28_AddedToJson ==
    /\ NewOrdinaryField("model")
    /\ MdSource(Pre, last.wd) = NoPath
    /\ SectionFields(Pre, last.wd, SectionKey(last.k), Name) # {}
    /\ "model" \in SectionFields(FS, last.wd, SectionKey(last.k), Name)

\* the new field went to the front-matter of a file that the call created
C28_AddedToNewFile ==
    /\ NewOrdinaryField("model")
    /\ MdSource(Pre, last.wd) = NoPath
    /\ SectionFields(Pre, last.wd, SectionKey(last.k), Name) = {}
    /\ InFrontMatterAt(<<"user", "plural">>, "model")

-----------------------------------------------------------------------------
(* C29 *)

\* the text has the form {file:...}, in any case of the letters and with
\* blanks around it, and nothing but blanks for a path
IsBlankReference(v) ==
    /\ v.t = "str"
    /\ LET t == Trim(v.s)
       IN  /\ Len(t) >= 8
           /\ LowerAll(SubSeq(t, 1, 6)) = <<"{", "f", "i", "l", "e", ":">>
           /\ t[Len(t)] = "}"
           /\ \A i \in 7..(Len(t) - 1) : t[i] = " "

\* an update of the content field to a value that is not null, on an
\* artifact with no Markdown source whose JSON section holds a blank
\* reference as content
MeetsBlankReference ==
    /\ IsCall("update")
    /\ ContentUpdate
    /\ MdSource(Pre, last.wd) = NoPath
    /\ ContentField(last.k) \in SectionFields(Pre, last.wd, SectionKey(last.k), Name)
    /\ IsBlankReference(SectionContent(Pre, last.wd, last.k))

\* C29: a content update that meets a reference with a blank path returns
\* the invalid-reference error and leaves every Markdown file, JSON
\* document, backup and prompt file as it was, whatever else the call
\* names.
C29_InvalidReferenceNoWrite ==
    MeetsBlankReference =>
        /\ ~last.ok
        /\ last.error = "InvalidReference"
        /\ md = Pre.md
        /\ json = Pre.json
        /\ backup = Pre.backup
        /\ prompts = Pre.prompts

\* the failing call also named a field of the section with a new value
C29_Witness ==
    /\ MeetsBlankReference
    /\ "model" \in OrdinaryUpdates
    /\ "model" \in SectionFields(Pre, last.wd, SectionKey(last.k), Name)
    /\ ~last.ok
    /\ FS = Pre

\* the failing call also named a field of the section for removal
C29_WithRemoval ==
    /\ MeetsBlankReference
    /\ "model" \in NullFields
    /\ ~last.ok
    /\ FS = Pre

-----------------------------------------------------------------------------
(* C30 *)

\* the call p has made its backup copy and not yet written the document
BetweenBackupAndWrite(p) == proc[p].pc = "copied"

\* C30: write_config_at copies before it writes.  For a call that runs
\* alone, in the state between the two steps the document at the path is
\* the one of before the call, and the backup equals it when the file
\* existed and is the backup of before when it did not; in every state of
\* the call a backup that differs from the one of before the call holds
\* the document that the path held before the call.
C30_BackupBeforeWrite ==
    \A p \in Procs : RanAlone(p) =>
        /\ BetweenBackupAndWrite(p) =>
              LET l == proc[p].json_write.path
              IN  /\ json[l] = proc[p].pre.json[l]
                  /\ proc[p].copied = proc[p].pre.json[l]
                  /\ backup[l] = IF proc[p].pre.json[l] # NoFile
                                 THEN proc[p].pre.json[l] ELSE proc[p].pre.backup[l]
        /\ \A l \in Layers :
              backup[l] # proc[p].pre.backup[l] =>
                  /\ proc[p].pre.json[l] # NoFile
                  /\ backup[l] = proc[p].pre.json[l]
                  /\ proc[p].json_write # NoValue
                  /\ proc[p].json_write.path = l

\* a call alone stands between the two steps: the backup holds the document
\* of before the call, which is still at the path, and the document about
\* to be written is another one
C30_Witness ==
    \E p \in Procs :
        /\ RanAlone(p) /\ BetweenBackupAndWrite(p)
        /\ proc[p].pre.json[proc[p].json_write.path] # NoFile
        /\ backup[proc[p].json_write.path] = proc[p].pre.json[proc[p].json_write.path]
        /\ backup # proc[p].pre.backup
        /\ json = proc[p].pre.json
        /\ proc[p].json_write.config # json[proc[p].json_write.path]

\* the same for a call that found the backup of an earlier call, with
\* another document in it
C30_OlderBackupReplaced ==
    \E p \in Procs :
        /\ RanAlone(p) /\ BetweenBackupAndWrite(p)
        /\ proc[p].pre.backup[proc[p].json_write.path] # NoFile
        /\ proc[p].pre.backup[proc[p].json_write.path]
             # proc[p].pre.json[proc[p].json_write.path]
        /\ backup[proc[p].json_write.path] = proc[p].pre.json[proc[p].json_write.path]

\* a call alone returned after its write: the backup holds the document of
\* before the call and the path holds the new one
C30_AfterWrite ==
    \E p \in Procs :
        /\ RanAlone(p) /\ HasReturned(p) /\ proc[p].seq > 0
        /\ backup[proc[p].json_write.path] = proc[p].pre.json[proc[p].json_write.path]
        /\ json[proc[p].json_write.path] = proc[p].json_write.config
        /\ json[proc[p].json_write.path] # backup[proc[p].json_write.path]

-----------------------------------------------------------------------------
(* C31 *)

NoMdSource == [scope |-> None, path |-> NoPath]

\* the scopes a call with wd looks at
ScopesSeen(wd) == IF wd # None THEN Scopes ELSE {"user"}

\* C31 as stated: after a successful delete_agent / delete_command the
\* name has no Markdown source at either scope: get_agent_scope /
\* get_command_scope with the same working directory finds nothing,
\* whichever files existed before the call.
C31_DeleteLeavesNoMarkdown ==
    (IsCall("delete") /\ last.ok) => get_agent_scope(FS, last.wd) = NoMdSource

\* a successful delete that started with the plural and the legacy file at
\* the same scope
C31_Witness ==
    /\ IsCall("delete")
    /\ last.ok
    /\ \E sc \in ScopesSeen(last.wd) :
          \A d \in Dirs : Pre.md[sc][d] # NoFile

\* C31, what holds: after a successful delete the plural file of every
\* scope the call looks at is gone, and the legacy file is left, unchanged,
\* exactly when the plural file existed next to it before the call.
C31_DeleteLeavesShadowedLegacy ==
    (IsCall("delete") /\ last.ok) =>
        \A sc \in ScopesSeen(last.wd) :
            /\ md[sc]["plural"] = NoFile
            /\ md[sc]["legacy"] = IF Pre.md[sc]["plural"] # NoFile
                                  THEN Pre.md[sc]["legacy"]
                                  ELSE NoFile

-----------------------------------------------------------------------------
(* C32 *)

\* the last call was a delete_agent of a built-in: a name with no Markdown
\* file and no JSON section
DeletedBuiltin ==
    /\ IsCall("delete")
    /\ last.k = "agent"
    /\ DefinedNowhere(Pre, "agent")

\* the next call is a delete_agent with the same working directory
DeletesAgain ==
    /\ calls' = calls + 1
    /\ last'.op = "delete"
    /\ last'.wd = last.wd

\* the built-in is disabled after the first call and defined nowhere, with
\* no Markdown file, after the second; both calls succeed
DeleteTwice ==
    (DeletedBuiltin /\ DeletesAgain) =>
        /\ last.ok
        /\ EntryOf(FS, WriteTarget(Pre, last.wd), "agent", Name) = DisableSection
        /\ last'.ok
        /\ DefinedNowhere(FS', "agent")
        /\ \A l \in Layers \ {WriteTarget(Pre, last.wd)} : json'[l] = json[l]

\* C32: delete_agent is not idempotent on a built-in.  From a name with no
\* Markdown file and no JSON section the first delete_agent writes
\* agent.<name> = {disable: true}; a second delete_agent with the same
\* working directory removes that section again, so that no layer defines
\* the name and the built-in is no longer disabled.  Both calls succeed.
C32_DeleteTwiceReenables == [][DeleteTwice]_vars

\* the second delete_agent with a working directory has removed the disable
\* section that the first one wrote to the project layer
C32_Witness ==
    /\ calls = 2
    /\ IsCall("delete")
    /\ last.k = "agent"
    /\ last.wd # None
    /\ last.ok
    /\ ~Pre.custom
    /\ \A p \in MdPaths : MdAt(Pre, p) = NoFile
    /\ Definers(Pre, last.wd, "agent", Name) = {2}
    /\ EntryOf(Pre, ProjectPath, "agent", Name) = DisableSection
    /\ DefinedNowhere(FS, "agent")

-----------------------------------------------------------------------------
(* C33 *)

\* the next call is a create_agent with the same working directory
CreatesAfter ==
    /\ calls' = calls + 1
    /\ last'.op = "create"
    /\ last'.wd = last.wd

\* the create fails and leaves every file as the delete left it
CreateAfterDisable ==
    (DeletedBuiltin /\ CreatesAfter) =>
        /\ ~last'.ok
        /\ last'.error = "AlreadyExists"
        /\ get_json_entry_source(read_config_layers(FS, last.wd), "agent", Name).exists
        /\ md' = md
        /\ json' = json
        /\ backup' = backup
        /\ prompts' = prompts

\* C33: after delete_agent has disabled a built-in (no Markdown file and no
\* JSON section before the call), create_agent for the same name with the
\* same working directory fails with the already-exists error, because the
\* disable section counts as a JSON definition, and writes no Markdown file.
C33_CreateAfterDisableFails == [][CreateAfterDisable]_vars

\* a create_agent with a working directory that failed on the disable
\* section a delete_agent had written to the project layer
C33_Witness ==
    /\ calls = 2
    /\ IsCall("create")
    /\ last.k = "agent"
    /\ last.wd # None
    /\ ~last.ok
    /\ ~Pre.custom
    /\ \A p \in MdPaths : MdAt(Pre, p) = NoFile
    /\ Definers(Pre, last.wd, "agent", Name) = {2}
    /\ EntryOf(Pre, ProjectPath, "agent", Name) = DisableSection
    /\ FS = Pre

-----------------------------------------------------------------------------
(* C34 *)

\* the next call is an update with the updates map and the working
\* directory of the last call, itself an update
UpdatesAgain ==
    /\ IsCall("update")
    /\ calls' = calls + 1
    /\ last'.op = "update"
    /\ last'.args = last.args
    /\ last'.wd = last.wd

\* the second application changes no Markdown file, no JSON document and
\* no prompt file, and ends as the first one did
SameUpdateTwice ==
    UpdatesAgain =>
        /\ md' = md
        /\ json' = json
        /\ prompts' = prompts
        /\ last'.ok = last.ok
        /\ last'.error = last.error

\* C34: update_agent / update_command are idempotent on the stored
\* artifact.  For every starting state and updates map, applying the same
\* update twice in a row with the same working directory leaves the
\* Markdown files, the JSON layer documents and any referenced prompt file
\* with the content they have after applying it once (the backup file
\* excepted), also when the first application creates the override file of
\* a built-in or empties the JSON section.
C34_UpdateIdempotent == [][SameUpdateTwice]_vars

\* the update was applied twice and the first application had created the
\* override file of a built-in
C34_Witness ==
    /\ calls = 2
    /\ IsCall("update")
    /\ last.ok
    /\ FS.md = Pre.md
    /\ FS.json = Pre.json
    /\ MdSource(Pre, last.wd) = <<"user", "plural">>
    /\ Definers(Pre, last.wd, SectionKey(last.k), Name) = {}
    /\ MdAt(Pre, <<"user", "plural">>) = MdFile(M(("model" :> B)), B.s)
    /\ last.args = M(("model" :> B) @@ (ContentField(last.k) :> B))

\* the update was applied twice and the first application had emptied the
\* JSON section of the artifact in the user layer, which starts with fields
C34_EmptiedSection ==
    /\ calls = 2
    /\ IsCall("update")
    /\ last.ok
    /\ FS.md = Pre.md
    /\ FS.json = Pre.json
    /\ MdSource(Pre, last.wd) = NoPath
    /\ Definers(Pre, last.wd, SectionKey(last.k), Name) = {3}
    /\ SectionFields(Pre, last.wd, SectionKey(last.k), Name) = {}
    /\ last.args = M(("model" :> Null) @@ (ContentField(last.k) :> Null))

\* the update was applied twice and each application wrote the referenced
\* prompt file
C34_PromptFileTwice ==
    /\ calls = 2
    /\ IsCall("update")
    /\ last.ok
    /\ ContentUpdate
    /\ Pre.prompts # EmptyMap
    /\ prompts = Pre.prompts

-----------------------------------------------------------------------------
(* C35 *)

\* the document of a layer that a call with wd loads cannot be parsed
LayerUnparsable(fs, wd) ==
    \E l \in Layers : Configured(fs, wd, l) /\ fs.json[l] = Unparsable

\* the last call was a create, an update or a delete that met such a layer
MetUnparsable ==
    /\ last.op \in {"create", "update", "delete"}
    /\ LayerUnparsable(Pre, last.wd)

\* C35 as stated: when the document of a configured layer (user, project
\* or custom) cannot be parsed, create, update and delete of agents and
\* commands return an error and no Markdown file or JSON document is
\* created, modified or deleted.
C35_ParseErrorWritesNothing ==
    MetUnparsable => (~last.ok /\ md = Pre.md /\ json = Pre.json)

\* a delete that met an unparsable layer while the name had a Markdown file
\* at each scope
C35_Witness ==
    /\ MetUnparsable
    /\ IsCall("delete")
    /\ last.wd # None
    /\ \A sc \in Scopes : Pre.md[sc]["plural"] # NoFile
    /\ ~last.ok

\* C35, what holds: every such call returns an error and leaves the JSON
\* documents, the backups and the prompt files as they were; create and
\* update leave the Markdown files too, while delete has removed the
\* Markdown file the name resolves to at each scope it looks at before it
\* fails on the document.
C35_ParseErrorAfterRemoval ==
    MetUnparsable =>
        /\ ~last.ok
        /\ json = Pre.json
        /\ backup = Pre.backup
        /\ prompts = Pre.prompts
        /\ last.op \in {"create", "update"} => md = Pre.md
        /\ last.op = "update" => last.error = "ParseError"
        /\ last.op = "delete" =>
              /\ last.error = "ParseError"
              /\ \A sc \in Scopes \ ScopesSeen(last.wd) : md[sc] = Pre.md[sc]
              /\ \A sc \in ScopesSeen(last.wd) :
                    /\ md[sc]["plural"] = NoFile
                    /\ md[sc]["legacy"] = IF Pre.md[sc]["plural"] # NoFile
                                          THEN Pre.md[sc]["legacy"]
                                          ELSE NoFile

\* a create and an update that met an unparsable layer and changed nothing
C35_CreateUpdateUntouched ==
    /\ MetUnparsable
    /\ last.op \in {"create", "update"}
    /\ last.error = "ParseError"
    /\ \E p \in MdPaths : MdAt(Pre, p) # NoFile
    /\ FS = Pre

-----------------------------------------------------------------------------
(* C36 *)

ProviderSections == {"provider", "providers"}

\* the document d has an object under key with a member id
HoldsProvider(d, key, id) ==
    /\ d # NoFile
    /\ d.t = "obj"
    /\ key \in DOMAIN d.m
    /\ d.m[key].t = "obj"
    /\ id \in DOMAIN d.m[key].m

\* d1 is d0 with id taken out of the sections that hold it, a section that
\* held nothing else dropped, and everything else as it was
ProviderRemoved(d0, d1, id) ==
    /\ d1.t = "obj"
    /\ \A key \in (DOMAIN d0.m \cup DOMAIN d1.m) \ ProviderSections :
          SameAt(d0.m, d1.m, key)
    /\ \A key \in ProviderSections :
          IF ~HoldsProvider(d0, key, id) THEN SameAt(d0.m, d1.m, key)
          ELSE IF DOMAIN d0.m[key].m = {id} THEN key \notin DOMAIN d1.m
          ELSE /\ key \in DOMAIN d1.m
               /\ d1.m[key].t = "obj"
               /\ DOMAIN d1.m[key].m = DOMAIN d0.m[key].m \ {id}
               /\ \A other \in DOMAIN d1.m[key].m :
                     d1.m[key].m[other] = d0.m[key].m[other]

\* C36: remove_provider_config(id, working_directory, scope) touches only
\* the document of the requested layer.  It removes id from both the
\* provider and the providers section of that document, drops a section key
\* that became empty, writes the document and returns true; when id is in
\* neither section it returns false and writes nothing; when the requested
\* project or custom path is not configured, or id is blank, it fails and
\* writes nothing.  (A call that cannot parse a layer it loads fails before
\* any of this and writes nothing; the document written is backed up first.)
C36_RemoveProviderFrame ==
    IsCall("remove_provider_config") =>
        LET id == last.args.provider_id
            t == last.scope
            d0 == Pre.json[t]
        IN  /\ md = Pre.md /\ prompts = Pre.prompts /\ skill = Pre.skill
            /\ \A l \in Layers \ {t} :
                  json[l] = Pre.json[l] /\ backup[l] = Pre.backup[l]
            /\ IF Trim(id) = << >> \/ ~Configured(Pre, last.wd, t)
                  \/ LayerUnparsable(Pre, last.wd)
               THEN ~last.ok /\ FS = Pre
               ELSE IF \A key \in ProviderSections : ~HoldsProvider(d0, key, id)
               THEN last.ok /\ last.result = Bool(FALSE) /\ FS = Pre
               ELSE /\ last.ok
                    /\ last.result = Bool(TRUE)
                    /\ ProviderRemoved(d0, json[t], id)
                    /\ backup[t] = d0

\* the id was in both sections of the project document: it is gone from
\* both, the providers section that held nothing else is dropped, the other
\* provider and the theme are kept, and the user document held the id too
C36_Witness ==
    /\ IsCall("remove_provider_config")
    /\ last.scope = "project"
    /\ last.result = Bool(TRUE)
    /\ Pre.json[ProjectPath] = V2
    /\ HoldsProvider(Pre.json[UserPath], "provider", PX)
    /\ json[ProjectPath] =
          Obj(M(("theme" :> A) @@ ("provider" :> Obj(ProviderMap({PY})))))
    /\ json[UserPath] = Pre.json[UserPath]

\* the id was in neither section of the requested document while another
\* layer held it: false is returned and nothing is written
C36_NotInRequestedLayer ==
    /\ IsCall("remove_provider_config")
    /\ last.ok
    /\ last.result = Bool(FALSE)
    /\ \E l \in Layers \ {last.scope} :
          Configured(Pre, last.wd, l) /\ HoldsProvider(Pre.json[l], "provider", PX)
    /\ last.args.provider_id = PX
    /\ FS = Pre

\* the requested path was not configured, and the id was blank
C36_PathNotAvailable ==
    /\ IsCall("remove_provider_config")
    /\ last.error = "PathNotAvailable"
    /\ HoldsProvider(Pre.json[last.scope], "provider", last.args.provider_id)

C36_BlankId ==
    /\ IsCall("remove_provider_config")
    /\ last.error = "IdRequired"
    /\ last.args.provider_id = <<" ">>

-----------------------------------------------------------------------------
(* C37 *)

IsStrip == IsCall("resolve") /\ last.k = "strip_json_comments"

\* where the scan of quotes and escapes alone stands after n characters of
\* s: outside a string, inside one, or inside one after a backslash
RECURSIVE QuoteState(_, _)
QuoteState(s, n) ==
    IF n = 0 THEN "outside"
    ELSE LET before == QuoteState(s, n - 1)
         IN  CASE before = "escape" -> "inside"
               [] before = "inside" ->
                    IF s[n] = "\\" THEN "escape"
                    ELSE IF s[n] = "\"" THEN "outside" ELSE "inside"
               [] OTHER -> IF s[n] = "\"" THEN "inside" ELSE "outside"

\* a comment marker starts at i
MarkerAt(s, i) == i < Len(s) /\ s[i] = "/" /\ s[i + 1] \in {"/", "*"}

\* s has no comment marker outside its double-quoted strings
NoMarkerOutside(s) ==
    \A i \in 1..Len(s) : MarkerAt(s, i) => QuoteState(s, i - 1) # "outside"

\* the index of the first newline from i on, Len(s) + 1 without one
NewlineFrom(s, i) ==
    IF \E j \in i..Len(s) : s[j] = "\n"
    THEN CHOOSE j \in i..Len(s) : s[j] = "\n" /\ \A x \in i..(j - 1) : s[x] # "\n"
    ELSE Len(s) + 1

\* s[j - 1], s[j] is the end of a block comment
ClosesBlock(s, j) == s[j - 1] = "*" /\ s[j] = "/"

\* the index of the last character of the first block comment end from i
\* on, Len(s) + 1 without one
BlockEndFrom(s, i) ==
    IF \E j \in i..Len(s) : ClosesBlock(s, j)
    THEN CHOOSE j \in i..Len(s) :
             ClosesBlock(s, j) /\ \A x \in i..(j - 1) : ~ClosesBlock(s, x)
    ELSE Len(s) + 1

\* the text from i on without its comments, quoted telling whether i is
\* inside a string: a line comment runs up to the next newline, which is
\* kept; a block comment runs through the next "*/" after its marker, or to
\* the end of the text
RECURSIVE WithoutComments(_, _, _)
WithoutComments(s, i, quoted) ==
    IF i > Len(s) THEN << >>
    ELSE IF quoted /\ s[i] = "\\"
    THEN SubSeq(s, i, IF i < Len(s) THEN i + 1 ELSE i)
         \o WithoutComments(s, i + 2, TRUE)
    ELSE IF s[i] = "\""
    THEN <<s[i]>> \o WithoutComments(s, i + 1, ~quoted)
    ELSE IF ~quoted /\ MarkerAt(s, i) /\ s[i + 1] = "/"
    THEN WithoutComments(s, NewlineFrom(s, i + 2), FALSE)
    ELSE IF ~quoted /\ MarkerAt(s, i)
    THEN WithoutComments(s, 1 + BlockEndFrom(s, i + 3), FALSE)
    ELSE <<s[i]>> \o WithoutComments(s, i + 1, quoted)

\* C37: strip_json_comments removes every // line comment, keeping the
\* newline that ends it, and every /* */ block comment that starts outside
\* a double-quoted string, and copies every character inside a
\* double-quoted string unchanged, where a quote after a backslash does not
\* end the string; a text without comment markers outside strings is
\* returned unchanged.
C37_StripComments ==
    IsStrip =>
        /\ last.result = Str(WithoutComments(last.args.content, 1, FALSE))
        /\ NoMarkerOutside(last.args.content) => last.result = Str(last.args.content)

\* a text with an escaped quote and comment markers inside a string, a
\* block comment that holds quotes, and a line comment before the last line
C37_Witness ==
    /\ IsStrip
    /\ last.args.content = TextAll
    /\ last.result = Str(<<"\"", "\\", "\"", "/", "/", "/", "*", "\"", "\n", "a">>)

\* a text whose markers all stand inside strings comes back unchanged
C37_QuotedMarkersKept ==
    /\ IsStrip
    /\ last.args.content = TextQuotedMarkers
    /\ NoMarkerOutside(TextQuotedMarkers)
    /\ last.result = Str(TextQuotedMarkers)

\* the string ends after an escaped backslash and the comment behind it goes
C37_EscapedBackslash ==
    /\ IsStrip
    /\ last.args.content = TextEscapedBackslash
    /\ last.result = Str(<<"\"", "\\", "\\", "\"", "\n", "a">>)
====
